---- MODULE Spec2Model ----
(***************************************************************************)
(* Model of the machineSite metrics core: the SQLite-backed store          *)
(* (server/db.js), the batched MetricsWriter (server/metrics-writer.js),   *)
(* the MetricsAggregator jobs (server/aggregator.js) and the machines      *)
(* routes (server/routes/machines.js).                                     *)
(*                                                                         *)
(* Time.  The code counts epoch milliseconds.  Every timestamp this model  *)
(* draws is a whole number of seconds, and the model writes all times and  *)
(* durations in seconds (the code's value divided by 1000), so that ninety *)
(* days still fit TLC's integers.  floor(t / 3600000) * 3600000 on a whole *)
(* second t is 1000 * (floor(s / 3600) * 3600) on s = t / 1000.            *)
(*                                                                         *)
(* Values.  A JavaScript value that may be null/undefined is an option:    *)
(* Null is <<>> and a present value v is <<v>>.                            *)
(*                                                                         *)
(* Columns.  Of the thirteen sample columns the model keeps one of each    *)
(* kind of handling: cpu_load (NOT NULL, `?? null`), ram_percent (NOT      *)
(* NULL, `?? 0`; ram_total and ram_used are handled the same way),         *)
(* gpu_utilization (nullable, `?? null`; cpu_temp, gpu_temp, gpu_mem_* are *)
(* handled the same way) and network_rx_sec (nullable, `?? 0`;             *)
(* network_tx_sec is handled the same way).                                *)
(***************************************************************************)
EXTENDS Bags, FiniteSets, Integers, Sequences, TLC

VARIABLES
    machines,    \* table machines: machine_id -> row
    raw,         \* table metrics_raw: a bag of rows
    hourly,      \* table metrics_hourly: a set of rows
    daily,       \* table metrics_daily: a set of rows
    now,         \* Date.now(), in seconds
    db_metadata, \* table db_metadata: key -> value (a decimal text)
    queue,       \* MetricsWriter.queue
    isRunning,   \* MetricsWriter.isRunning
    intervalId,  \* MetricsWriter.intervalId: Null or <<1>> while the timer is armed
    last,        \* the last operation: its name, its inputs and what its caller saw
    posted,      \* history: the samples the store accepted, as their callers supplied them
    arrivals,    \* history: the queue after the last flush, then the samples enqueued since
    evictLog,    \* history: the samples enqueue reported as dropped since the last flush
    schema,      \* the tables of the database file, their columns and the indexes
    dbInstance,  \* whether the server process holds the open database
    metricsBuffer,  \* agent.js metricsBuffer
    isSubmitting,   \* agent.js isSubmitting
    batchInFlight,  \* the submitMetrics calls that await their response, with their batch
    collected,   \* history: how many samples the agent collected
    delivered,   \* history: the samples of the batches the server answered OK to
    systemInfoSent, \* agent.js systemInfoSent
    serverHasInfo,  \* history: a submission that carried system_info was answered OK
    agentProc,   \* the agent process: running, exiting (a signal handler awaits its
                 \* submission) or exited; atSignal: the buffer when the signal came
    submitted,   \* history: the samples that were put into a request
    conns,       \* the live connections of index.js, in the order they were accepted
    jobs,        \* MetricsAggregator.jobs: the names of the scheduled jobs
    closing      \* pending timeouts of gracefulShutdown (db.close, process.exit)

vars == <<machines, raw, hourly, daily, now, db_metadata, queue, isRunning, intervalId, last,
          posted, arrivals, evictLog, schema, dbInstance, metricsBuffer, isSubmitting,
          batchInFlight, collected, delivered, systemInfoSent, serverHasInfo, agentProc,
          submitted, conns, jobs, closing>>

writerVars == <<queue, isRunning, intervalId, arrivals, evictLog>>

startVars == <<schema, dbInstance>>

agentVars == <<metricsBuffer, isSubmitting, batchInFlight, collected, delivered,
               systemInfoSent, serverHasInfo, agentProc, submitted>>

liveVars == <<conns, jobs, closing>>

----------------------------------------------------------------------------
(* Bounds of the model *)

MaxRaw == 2        \* rows of metrics_raw a behaviour may hold
MaxBatch == 2      \* samples in one submitted batch
MaxQueueSize == 3  \* options.maxQueueSize of the writer under study
MaxOverflow == 2   \* enqueues between two flushes, beyond the queue's capacity
MaxCollected == 5  \* samples the push agent collects in a behaviour
BATCH_SIZE == 2    \* the agent's --batch-size (30 when not given)

(* Program constants *)

DefaultMaxQueueSize == 100
HOUR == 60 * 60
DAY == 24 * 60 * 60

----------------------------------------------------------------------------
(* JavaScript values *)

Null == <<>>
Some(v) == <<v>>
Val(o) == o[1]

\* a ?? d
Coalesce(o, d) == IF o = Null THEN d ELSE o

\* a || d on an optional number: null, undefined and 0 are falsy
OrNum(o, d) == IF o = Null \/ o = Some(0) THEN d ELSE o

\* a || d on an optional non-empty string
OrStr(o, d) == IF o = Null THEN d ELSE o

\* JSON.stringify(obj): the stored text of an object, never the object itself
JSONstringify(obj) == <<"json", obj>>

\* JSON.parse(text)
JSONparse(text) == text[2]

----------------------------------------------------------------------------
(* Inputs *)

MachineIds == {"localhost", "m1"}

\* The runs start at midnight of the day after the epoch.
T0 == DAY

\* Clock readings: start-up, 01:05, 02:05 and 00:10 of the next day.
Times == {T0, T0 + HOUR + 300, T0 + 2 * HOUR + 300, T0 + DAY + 600}

\* Clock readings of the registry runs
EarlyTimes == {T0, T0 + HOUR + 300}

Sample(ts, cpu, ram, gpu, rx) ==
    [machine_id |-> Null, timestamp |-> ts, cpu_load |-> cpu,
     ram_percent |-> ram, gpu_utilization |-> gpu, network_rx_sec |-> rx]

\* Sample payloads as a client posts them (machine_id is added by the route).
Sample1800 == Sample(Some(T0 + 1800), Some(90), Null, Some(40), Some(7))

\* A sample the machine could not fill in: cpu_load is missing.
SampleNoCpu == Sample(Some(T0 + 1800), Null, Some(50), Null, Null)

Samples == {Sample1800, SampleNoCpu}

RECURSIVE SeqsUpTo(_, _)
SeqsUpTo(S, n) ==
    IF n = 0 THEN {<<>>}
    ELSE LET shorter == SeqsUpTo(S, n - 1)
         IN  shorter \cup {Append(s, x) : s \in {t \in shorter : Len(t) = n - 1}, x \in S}

Batches == SeqsUpTo(Samples, MaxBatch)

\* The bag of the elements of a sequence
SeqToBag(q) ==
    LET S == {q[i] : i \in 1..Len(q)}
    IN  [x \in S |-> Cardinality({i \in 1..Len(q) : q[i] = x})]

\* The samples of a batch as the route hands them on: {...m, machine_id}
WithMachineId(metrics, mid) ==
    [i \in 1..Len(metrics) |-> [metrics[i] EXCEPT !.machine_id = Some(mid)]]

\* Metadata payloads (system_info objects) are <<>>, the empty object, or a profile.
\* Request bodies of the two POST routes: identity fields and the payload.
Body(h, d, ip, meta) ==
    [hostname |-> h, display_name |-> d, ip_address |-> ip, metadata |-> meta]

Bodies ==
    { Body(Some("host-a"), Some("Alpha"), Some("10.0.0.1"), Some(<<"cpu", "i7">>)),
      Body(Some("host-a"), Some("Beta"), Null, Null),
      Body(Null, Null, Null, Null) }

\* Request bodies of the ingestion runs: with and without a payload
IngestBodies ==
    { Body(Some("host-a"), Some("Alpha"), Some("10.0.0.1"), Some(<<"cpu", "i7">>)),
      Body(Some("host-a"), Some("Beta"), Null, Null) }

\* req.ip of the connection
ReqIps == {Some("10.9.9.9")}

----------------------------------------------------------------------------
(* The store: server/db.js *)

\* UPDATE machines SET last_seen = ? WHERE machine_id = ?
UpdateMachineLastSeen(ms, ts, mid) ==
    IF mid \in DOMAIN ms THEN [ms EXCEPT ![mid].last_seen = ts] ELSE ms

\* The row insertMetric binds to the INSERT statement.
MetricRow(metric) ==
    [machine_id |-> Val(OrStr(metric.machine_id, Some("localhost"))),
     timestamp |-> metric.timestamp,
     cpu_load |-> Coalesce(metric.cpu_load, Null),
     ram_percent |-> Coalesce(metric.ram_percent, Some(0)),
     gpu_utilization |-> Coalesce(metric.gpu_utilization, Null),
     network_rx_sec |-> Coalesce(metric.network_rx_sec, Some(0))]

\* NOT NULL columns of metrics_raw
ViolatesNotNull(row) ==
    row.timestamp = Null \/ row.cpu_load = Null \/ row.ram_percent = Null

\* A stored row: the bound row with its NOT NULL timestamp unwrapped.
StoredRow(row) == [row EXCEPT !.timestamp = Val(row.timestamp)]

\* insertMetric(metric).  st is [machines, raw]; ioError says the statement
\* fails on the disk.  The result adds threw: the error is logged and rethrown.
InsertMetric(st, metric, ioError) ==
    LET row == MetricRow(metric)
    IN  IF ioError \/ ViolatesNotNull(row)
        THEN [threw |-> TRUE, machines |-> st.machines, raw |-> st.raw]
        ELSE [threw |-> FALSE,
              machines |-> UpdateMachineLastSeen(st.machines, Val(row.timestamp), row.machine_id),
              raw |-> st.raw (+) SetToBag({StoredRow(row)})]

\* The body of the transaction function: insertMetric for each sample in
\* turn, stopping at the first one that throws.  failAt is the index of the
\* sample whose statement meets a disk error (0: none).
RECURSIVE RunBatch(_, _, _, _)
RunBatch(st, metricsArray, i, failAt) ==
    IF i > Len(metricsArray) THEN [threw |-> FALSE, machines |-> st.machines, raw |-> st.raw]
    ELSE LET r == InsertMetric(st, metricsArray[i], i = failAt)
         IN  IF r.threw THEN r
             ELSE RunBatch([machines |-> r.machines, raw |-> r.raw], metricsArray, i + 1, failAt)

\* insertMetricsBatch without the transaction: what the failed run wrote stays.
InsertMetricsBatchNoRollback(st, metrics, failAt) ==
    IF Len(metrics) = 0
    THEN [threw |-> FALSE, machines |-> st.machines, raw |-> st.raw]
    ELSE RunBatch(st, metrics, 1, failAt)

\* insertMetricsBatch(metrics): db.transaction runs the body and rolls
\* everything back when it throws, then rethrows.
InsertMetricsBatch(st, metrics, failAt) ==
    IF Len(metrics) = 0
    THEN [threw |-> FALSE, machines |-> st.machines, raw |-> st.raw]
    ELSE LET r == RunBatch(st, metrics, 1, failAt)
         IN  IF r.threw
             THEN [threw |-> TRUE, machines |-> st.machines, raw |-> st.raw]
             ELSE r

\* The parameters MetricsDatabase.upsertMachine binds; t is Date.now().
MachineParams(machine, t) ==
    [hostname |-> OrStr(machine.hostname, Null),
     display_name |-> OrStr(machine.display_name,
                            OrStr(machine.hostname, Some(machine.machine_id))),
     ip_address |-> OrStr(machine.ip_address, Null),
     last_seen |-> Val(OrNum(machine.last_seen, Some(t))),
     metadata |-> IF machine.metadata # Null
                  THEN Some(JSONstringify(Val(machine.metadata)))
                  ELSE Null]

\* stmts.upsertMachine: INSERT ... ON CONFLICT(machine_id) DO UPDATE SET ...
UpsertRow(ms, mid, p) ==
    IF mid \in DOMAIN ms
    THEN [ms EXCEPT ![mid] =
            [@ EXCEPT !.hostname = p.hostname, !.display_name = p.display_name,
                      !.ip_address = p.ip_address, !.last_seen = p.last_seen,
                      !.metadata = p.metadata]]
    ELSE [x \in DOMAIN ms \cup {mid} |->
            IF x = mid
            THEN [hostname |-> p.hostname, display_name |-> p.display_name,
                  ip_address |-> p.ip_address, last_seen |-> p.last_seen,
                  is_active |-> 1, metadata |-> p.metadata]
            ELSE ms[x]]

\* MetricsDatabase.upsertMachine(machine)
UpsertMachine(ms, machine, t) ==
    UpsertRow(ms, machine.machine_id, MachineParams(machine, t))

----------------------------------------------------------------------------
(* Aggregation: server/db.js.  An average is a reduced fraction <<n, d>>. *)

RECURSIVE GCD(_, _)
GCD(a, b) == IF b = 0 THEN a ELSE GCD(b, a % b)

Frac(n, d) == LET g == GCD(n, d) IN <<n \div g, d \div g>>

FracAdd(a, b) == Frac(a[1] * b[2] + b[1] * a[2], a[2] * b[2])

RECURSIVE SumSeq(_)
SumSeq(arr) == IF arr = <<>> THEN 0 ELSE Head(arr) + SumSeq(Tail(arr))

RECURSIVE FracSumSeq(_)
FracSumSeq(arr) == IF arr = <<>> THEN <<0, 1>> ELSE FracAdd(Head(arr), FracSumSeq(Tail(arr)))

\* arr.map(m => m[f]).filter(v => v != null)
NonNullColumn(rows, f) ==
    LET col == [i \in 1..Len(rows) |-> rows[i][f]]
        kept == SelectSeq(col, LAMBDA v : v # Null)
    IN  [i \in 1..Len(kept) |-> Val(kept[i])]

\* arr.map(m => m[f] || 0)
OrZeroColumn(rows, f) == [i \in 1..Len(rows) |-> Val(OrNum(rows[i][f], Some(0)))]

\* avg = arr => arr.length > 0 ? arr.reduce((a, b) => a + b, 0) / arr.length : null
avg(arr) == IF Len(arr) > 0 THEN Some(Frac(SumSeq(arr), Len(arr))) ELSE Null

\* the same avg over a list of averages
avgOfAvgs(arr) ==
    IF Len(arr) > 0
    THEN LET t == FracSumSeq(arr) IN Some(Frac(t[1], t[2] * Len(arr)))
    ELSE Null

\* min = arr => arr.length > 0 ? Math.min(...arr) : null
min(arr) ==
    IF Len(arr) > 0
    THEN Some(CHOOSE v \in {arr[i] : i \in 1..Len(arr)} :
                 \A w \in {arr[i] : i \in 1..Len(arr)} : v <= w)
    ELSE Null

\* max = arr => arr.length > 0 ? Math.max(...arr) : null
max(arr) ==
    IF Len(arr) > 0
    THEN Some(CHOOSE v \in {arr[i] : i \in 1..Len(arr)} :
                 \A w \in {arr[i] : i \in 1..Len(arr)} : v >= w)
    ELSE Null

\* sum = arr => arr.reduce((a, b) => a + b, 0)
sum(arr) == SumSeq(arr)

\* The rows of a bag in ascending order of f (ties in any fixed order)
RECURSIVE BagInOrder(_, _)
BagInOrder(bag, f) ==
    IF BagToSet(bag) = {} THEN <<>>
    ELSE LET r == CHOOSE x \in BagToSet(bag) : \A y \in BagToSet(bag) : x[f] <= y[f]
         IN  <<r>> \o BagInOrder(bag (-) SetToBag({r}), f)

\* stmts.getRawMetrics: machine_id = ? AND timestamp >= ? AND timestamp <= ?
\* ORDER BY timestamp ASC
GetRawMetrics(rawTable, machineId, start, end) ==
    LET hits == {r \in BagToSet(rawTable) :
                    r.machine_id = machineId /\ r.timestamp >= start /\ r.timestamp <= end}
    IN  BagInOrder([r \in hits |-> CopiesIn(r, rawTable)], "timestamp")

\* stmts.getHourlyMetrics: machine_id = ? AND hour_start >= ? AND hour_start <= ?
\* ORDER BY hour_start ASC
GetHourlyMetrics(hourlyTable, machineId, start, end) ==
    BagInOrder(SetToBag({r \in hourlyTable :
                            r.machine_id = machineId /\ r.hour_start >= start
                            /\ r.hour_start <= end}), "hour_start")

\* INSERT OR REPLACE: the rows that collide with the new row on a UNIQUE
\* column are deleted, then the row is inserted.  The UNIQUE column of
\* metrics_hourly is hour_start, that of metrics_daily is day_start.
InsertOrReplace(table, row, key) ==
    {x \in table : x[key] # row[key]} \cup {row}

\* The summary aggregateHourly computes from the rows it read
HourlyData(machineId, hourStart, rawMetrics) ==
    LET cpu_loads == NonNullColumn(rawMetrics, "cpu_load")
        ram_percents == NonNullColumn(rawMetrics, "ram_percent")
        gpu_utils == NonNullColumn(rawMetrics, "gpu_utilization")
        network_rx == OrZeroColumn(rawMetrics, "network_rx_sec")
    IN  [machine_id |-> machineId,
         hour_start |-> hourStart,
         cpu_load_avg |-> avg(cpu_loads),
         cpu_load_min |-> min(cpu_loads),
         cpu_load_max |-> max(cpu_loads),
         ram_percent_avg |-> avg(ram_percents),
         ram_percent_min |-> min(ram_percents),
         ram_percent_max |-> max(ram_percents),
         gpu_util_avg |-> avg(gpu_utils),
         gpu_util_min |-> min(gpu_utils),
         gpu_util_max |-> max(gpu_utils),
         network_rx_total |-> sum(network_rx),
         network_rx_avg |-> avg(network_rx),
         sample_count |-> Len(rawMetrics)]

\* aggregateHourly(machineId, hourStart): result is Null or the summary.
AggregateHourly(rawTable, hourlyTable, machineId, hourStart) ==
    LET hourEnd == hourStart + HOUR
        rawMetrics == GetRawMetrics(rawTable, machineId, hourStart, hourEnd)
    IN  IF Len(rawMetrics) = 0
        THEN [result |-> Null, table |-> hourlyTable]
        ELSE LET hourlyData == HourlyData(machineId, hourStart, rawMetrics)
             IN  [result |-> Some(hourlyData),
                  table |-> InsertOrReplace(hourlyTable, hourlyData, "hour_start")]

\* The summary aggregateDaily computes from the hourly rows it read
DailyData(machineId, dayStart, hourlyMetrics) ==
    [machine_id |-> machineId,
     day_start |-> dayStart,
     cpu_load_avg |-> avgOfAvgs(NonNullColumn(hourlyMetrics, "cpu_load_avg")),
     cpu_load_min |-> min(NonNullColumn(hourlyMetrics, "cpu_load_min")),
     cpu_load_max |-> max(NonNullColumn(hourlyMetrics, "cpu_load_max")),
     ram_percent_avg |-> avgOfAvgs(NonNullColumn(hourlyMetrics, "ram_percent_avg")),
     ram_percent_min |-> min(NonNullColumn(hourlyMetrics, "ram_percent_min")),
     ram_percent_max |-> max(NonNullColumn(hourlyMetrics, "ram_percent_max")),
     gpu_util_avg |-> avgOfAvgs(NonNullColumn(hourlyMetrics, "gpu_util_avg")),
     gpu_util_min |-> min(NonNullColumn(hourlyMetrics, "gpu_util_min")),
     gpu_util_max |-> max(NonNullColumn(hourlyMetrics, "gpu_util_max")),
     network_rx_total |->
         sum([i \in 1..Len(hourlyMetrics) |-> hourlyMetrics[i].network_rx_total]),
     sample_count |->
         sum([i \in 1..Len(hourlyMetrics) |-> hourlyMetrics[i].sample_count])]

\* aggregateDaily(machineId, dayStart): result is Null or the summary.
AggregateDaily(hourlyTable, dailyTable, machineId, dayStart) ==
    LET dayEnd == dayStart + DAY
        hourlyMetrics == GetHourlyMetrics(hourlyTable, machineId, dayStart, dayEnd)
    IN  IF Len(hourlyMetrics) = 0
        THEN [result |-> Null, table |-> dailyTable]
        ELSE LET dailyData == DailyData(machineId, dayStart, hourlyMetrics)
             IN  [result |-> Some(dailyData),
                  table |-> InsertOrReplace(dailyTable, dailyData, "day_start")]

\* getMachines that lists the machine contacted longest ago first
GetMachinesOrdersAscending(ms) ==
    LET active == {m \in DOMAIN ms : ms[m].is_active = 1}
        n == Cardinality(active)
    IN  {o \in [1..n -> active] :
            /\ \A i, j \in 1..n : i # j => o[i] # o[j]
            /\ \A i, j \in 1..n : i < j => ms[o[i]].last_seen <= ms[o[j]].last_seen}

\* stmts.getMachines: is_active = 1 ORDER BY last_seen DESC.  Machines with
\* equal last_seen come in an order SQL leaves open: every such order.
GetMachinesOrders(ms) ==
    LET active == {m \in DOMAIN ms : ms[m].is_active = 1}
        n == Cardinality(active)
    IN  {o \in [1..n -> active] :
            /\ \A i, j \in 1..n : i # j => o[i] # o[j]
            /\ \A i, j \in 1..n : i < j => ms[o[i]].last_seen >= ms[o[j]].last_seen}

\* stmts.getDailyMetrics: machine_id = ? AND day_start >= ? AND day_start <= ?
\* ORDER BY day_start ASC
GetDailyMetrics(dailyTable, machineId, start, end) ==
    BagInOrder(SetToBag({r \in dailyTable :
                            r.machine_id = machineId /\ r.day_start >= start
                            /\ r.day_start <= end}), "day_start")

\* getMetrics whose automatic choice takes the fine tier only below 24 hours
GetMetricsBelowDay(st, machineId, startTimestamp, endTimestamp, granularity) ==
    LET duration == endTimestamp - startTimestamp
        chosen == IF granularity = "auto"
                  THEN IF duration < 24 * HOUR THEN "raw"
                       ELSE IF duration <= 24 * 90 * HOUR THEN "hourly"
                       ELSE "daily"
                  ELSE granularity
    IN  CASE chosen = "raw" ->
               [threw |-> FALSE, granularity |-> "raw",
                data |-> GetRawMetrics(st.raw, machineId, startTimestamp, endTimestamp)]
          [] chosen = "hourly" ->
               [threw |-> FALSE, granularity |-> "hourly",
                data |-> GetHourlyMetrics(st.hourly, machineId,
                                          (startTimestamp \div HOUR) * HOUR,
                                          (endTimestamp \div HOUR) * HOUR)]
          [] chosen = "daily" ->
               [threw |-> FALSE, granularity |-> "daily",
                data |-> GetDailyMetrics(st.daily, machineId,
                                         (startTimestamp \div DAY) * DAY,
                                         (endTimestamp \div DAY) * DAY)]
          [] OTHER -> [threw |-> TRUE, granularity |-> chosen, data |-> <<>>]

\* getMetrics that reads the hourly tier when raw is asked for over more than
\* 24 hours
GetMetricsCapsRaw(st, machineId, startTimestamp, endTimestamp, granularity) ==
    LET duration == endTimestamp - startTimestamp
        chosen == IF granularity = "auto" \/ (granularity = "raw" /\ duration > 24 * HOUR)
                  THEN IF duration <= 24 * HOUR THEN "raw"
                       ELSE IF duration <= 24 * 90 * HOUR THEN "hourly"
                       ELSE "daily"
                  ELSE granularity
    IN  CASE chosen = "raw" ->
               [threw |-> FALSE, granularity |-> "raw",
                data |-> GetRawMetrics(st.raw, machineId, startTimestamp, endTimestamp)]
          [] chosen = "hourly" ->
               [threw |-> FALSE, granularity |-> "hourly",
                data |-> GetHourlyMetrics(st.hourly, machineId,
                                          (startTimestamp \div HOUR) * HOUR,
                                          (endTimestamp \div HOUR) * HOUR)]
          [] chosen = "daily" ->
               [threw |-> FALSE, granularity |-> "daily",
                data |-> GetDailyMetrics(st.daily, machineId,
                                         (startTimestamp \div DAY) * DAY,
                                         (endTimestamp \div DAY) * DAY)]
          [] OTHER -> [threw |-> TRUE, granularity |-> chosen, data |-> <<>>]

\* getMetrics that reads the summaries from the requested start, untruncated
GetMetricsFromStart(st, machineId, startTimestamp, endTimestamp, granularity) ==
    LET duration == endTimestamp - startTimestamp
        chosen == IF granularity = "auto"
                  THEN IF duration <= 24 * HOUR THEN "raw"
                       ELSE IF duration <= 24 * 90 * HOUR THEN "hourly"
                       ELSE "daily"
                  ELSE granularity
    IN  CASE chosen = "raw" ->
               [threw |-> FALSE, granularity |-> "raw",
                data |-> GetRawMetrics(st.raw, machineId, startTimestamp, endTimestamp)]
          [] chosen = "hourly" ->
               [threw |-> FALSE, granularity |-> "hourly",
                data |-> GetHourlyMetrics(st.hourly, machineId, startTimestamp,
                                          (endTimestamp \div HOUR) * HOUR)]
          [] chosen = "daily" ->
               [threw |-> FALSE, granularity |-> "daily",
                data |-> GetDailyMetrics(st.daily, machineId, startTimestamp,
                                         (endTimestamp \div DAY) * DAY)]
          [] OTHER -> [threw |-> TRUE, granularity |-> chosen, data |-> <<>>]

\* getMetrics(machineId, startTimestamp, endTimestamp, granularity).  st is
\* [raw, hourly, daily].  The result is {granularity, data}; threw: the
\* granularity is none of the four, Error('Invalid granularity') is thrown.
GetMetrics(st, machineId, startTimestamp, endTimestamp, granularity) ==
    LET duration == endTimestamp - startTimestamp
        chosen == IF granularity = "auto"
                  THEN IF duration <= 24 * HOUR THEN "raw"
                       ELSE IF duration <= 24 * 90 * HOUR THEN "hourly"
                       ELSE "daily"
                  ELSE granularity
    IN  CASE chosen = "raw" ->
               [threw |-> FALSE, granularity |-> "raw",
                data |-> GetRawMetrics(st.raw, machineId, startTimestamp, endTimestamp)]
          [] chosen = "hourly" ->
               [threw |-> FALSE, granularity |-> "hourly",
                data |-> GetHourlyMetrics(st.hourly, machineId,
                                          (startTimestamp \div HOUR) * HOUR,
                                          (endTimestamp \div HOUR) * HOUR)]
          [] chosen = "daily" ->
               [threw |-> FALSE, granularity |-> "daily",
                data |-> GetDailyMetrics(st.daily, machineId,
                                         (startTimestamp \div DAY) * DAY,
                                         (endTimestamp \div DAY) * DAY)]
          [] OTHER -> [threw |-> TRUE, granularity |-> chosen, data |-> <<>>]

----------------------------------------------------------------------------
(* Retention: db_metadata and the DELETE statements of server/db.js.  A    *)
(* value of db_metadata is a decimal text, the sequence of its digits:     *)
(* '90' is <<9, 0>>.                                                       *)

\* parseInt(text) on a decimal text
RECURSIVE parseInt(_)
parseInt(text) ==
    IF Len(text) = 1 THEN text[1]
    ELSE 10 * parseInt(SubSeq(text, 1, Len(text) - 1)) + text[Len(text)]

\* The rows the migration inserts: retention_days_raw '7',
\* retention_days_hourly '90', retention_days_daily '0'
DefaultMetadata ==
    [key \in {"retention_days_raw", "retention_days_hourly", "retention_days_daily"} |->
        CASE key = "retention_days_raw" -> <<7>>
          [] key = "retention_days_hourly" -> <<9, 0>>
          [] key = "retention_days_daily" -> <<0>>]

\* stmts.getMetadata.get(key)?.value
GetMetadata(kv, key) == IF key \in DOMAIN kv THEN Some(kv[key]) ELSE Null

\* stmts.setMetadata.run(key, value): INSERT OR REPLACE INTO db_metadata
SetMetadata(kv, key, value) ==
    [k \in DOMAIN kv \cup {key} |-> IF k = key THEN value ELSE kv[k]]

\* DELETE FROM metrics_raw that also removes the rows stamped at the cutoff
DeleteOldRawMetricsInclusive(rawTable, params) ==
    IF Len(params) # 2
    THEN [threw |-> TRUE, table |-> rawTable, changes |-> 0]
    ELSE LET kept == {r \in BagToSet(rawTable) :
                        ~(r.machine_id = params[1] /\ r.timestamp <= params[2])}
             table == [r \in kept |-> CopiesIn(r, rawTable)]
         IN  [threw |-> FALSE, table |-> table,
              changes |-> BagCardinality(rawTable) - BagCardinality(table)]

\* DELETE FROM metrics_raw that reports no change
DeleteOldRawMetricsUncounted(rawTable, params) ==
    IF Len(params) # 2
    THEN [threw |-> TRUE, table |-> rawTable, changes |-> 0]
    ELSE LET kept == {r \in BagToSet(rawTable) :
                        ~(r.machine_id = params[1] /\ r.timestamp < params[2])}
             table == [r \in kept |-> CopiesIn(r, rawTable)]
         IN  [threw |-> FALSE, table |-> table, changes |-> 0]

\* stmts.deleteOldRawMetrics.run(...params):
\* DELETE FROM metrics_raw WHERE machine_id = ? AND timestamp < ?
\* The statement has two parameters; run with another number of values it
\* throws (RangeError) and deletes nothing.  changes: the rows deleted.
DeleteOldRawMetrics(rawTable, params) ==
    IF Len(params) # 2
    THEN [threw |-> TRUE, table |-> rawTable, changes |-> 0]
    ELSE LET kept == {r \in BagToSet(rawTable) :
                        ~(r.machine_id = params[1] /\ r.timestamp < params[2])}
             table == [r \in kept |-> CopiesIn(r, rawTable)]
         IN  [threw |-> FALSE, table |-> table,
              changes |-> BagCardinality(rawTable) - BagCardinality(table)]

\* stmts.deleteOldHourlyMetrics.run(...params):
\* DELETE FROM metrics_hourly WHERE machine_id = ? AND hour_start < ?
DeleteOldHourlyMetrics(hourlyTable, params) ==
    IF Len(params) # 2
    THEN [threw |-> TRUE, table |-> hourlyTable, changes |-> 0]
    ELSE LET table == {r \in hourlyTable :
                         ~(r.machine_id = params[1] /\ r.hour_start < params[2])}
         IN  [threw |-> FALSE, table |-> table,
              changes |-> Cardinality(hourlyTable) - Cardinality(table)]

\* stmts.deleteOldDailyMetrics.run(...params):
\* DELETE FROM metrics_daily WHERE machine_id = ? AND day_start < ?
DeleteOldDailyMetrics(dailyTable, params) ==
    IF Len(params) # 2
    THEN [threw |-> TRUE, table |-> dailyTable, changes |-> 0]
    ELSE LET table == {r \in dailyTable :
                         ~(r.machine_id = params[1] /\ r.day_start < params[2])}
         IN  [threw |-> FALSE, table |-> table,
              changes |-> Cardinality(dailyTable) - Cardinality(table)]

\* The retention settings cleanup reads: parseInt(value || default)
RetentionDays(kv) ==
    [raw |-> parseInt(Val(OrStr(GetMetadata(kv, "retention_days_raw"), Some(<<7>>)))),
     hourly |-> parseInt(Val(OrStr(GetMetadata(kv, "retention_days_hourly"), Some(<<9, 0>>)))),
     daily |-> parseInt(Val(OrStr(GetMetadata(kv, "retention_days_daily"), Some(<<0>>))))]

\* A round of cleanup's loop that applies the raw window to every tier
CleanupMachineOneWindow(st, mid, retention, t) ==
    LET r == IF retention.raw > 0
             THEN DeleteOldRawMetrics(st.raw, <<mid, t - retention.raw * DAY>>)
             ELSE [threw |-> FALSE, table |-> st.raw, changes |-> 0]
        h == IF retention.raw > 0
             THEN DeleteOldHourlyMetrics(st.hourly, <<mid, t - retention.raw * DAY>>)
             ELSE [threw |-> FALSE, table |-> st.hourly, changes |-> 0]
        d == IF retention.raw > 0
             THEN DeleteOldDailyMetrics(st.daily, <<mid, t - retention.raw * DAY>>)
             ELSE [threw |-> FALSE, table |-> st.daily, changes |-> 0]
    IN  [raw |-> r.table, hourly |-> h.table, daily |-> d.table,
         deletedCount |-> st.deletedCount + r.changes + h.changes + d.changes]

\* One round of cleanup's loop: the three deletes for machine mid.  st is
\* [raw, hourly, daily, deletedCount]; t is cleanup's reading of the clock.
CleanupMachine(st, mid, retention, t) ==
    LET r == IF retention.raw > 0
             THEN DeleteOldRawMetrics(st.raw, <<mid, t - retention.raw * DAY>>)
             ELSE [threw |-> FALSE, table |-> st.raw, changes |-> 0]
        h == IF retention.hourly > 0
             THEN DeleteOldHourlyMetrics(st.hourly, <<mid, t - retention.hourly * DAY>>)
             ELSE [threw |-> FALSE, table |-> st.hourly, changes |-> 0]
        d == IF retention.daily > 0
             THEN DeleteOldDailyMetrics(st.daily, <<mid, t - retention.daily * DAY>>)
             ELSE [threw |-> FALSE, table |-> st.daily, changes |-> 0]
    IN  [raw |-> r.table, hourly |-> h.table, daily |-> d.table,
         deletedCount |-> st.deletedCount + r.changes + h.changes + d.changes]

\* for (const mid of machines) { ... }
RECURSIVE CleanupLoop(_, _, _, _, _)
CleanupLoop(st, mids, i, retention, t) ==
    IF i > Len(mids) THEN st
    ELSE CleanupLoop(CleanupMachine(st, mids[i], retention, t), mids, i + 1, retention, t)

\* cleanup(machineId = null).  st is [raw, hourly, daily, db_metadata];
\* order is what getMachines returns, read when machineId is null.  The
\* result is the three tables and deletedCount, the value returned.
Cleanup(st, machineId, order, t) ==
    LET retention == RetentionDays(st.db_metadata)
        mids == IF machineId # Null THEN <<Val(machineId)>> ELSE order
    IN  CleanupLoop([raw |-> st.raw, hourly |-> st.hourly, daily |-> st.daily,
                     deletedCount |-> 0], mids, 1, retention, t)

----------------------------------------------------------------------------
(* Migrations: server/migrations/*.sql and runMigrations of server/db.js.   *)
(* A store is [schema, machines, db_metadata]; its schema is [tables,       *)
(* indexes], tables mapping each table to the set of its columns.           *)

Statement(kind, table, columns) == [kind |-> kind, table |-> table, columns |-> columns]

\* The initial schema: the three tiers, system_events and db_metadata, with
\* their indexes and the default db_metadata rows.
InitialSchemaSql ==
    << Statement("createTable", "metrics_raw",
                 {"id", "timestamp", "cpu_load", "cpu_temp", "ram_total", "ram_used",
                  "ram_percent", "gpu_utilization", "gpu_temp", "gpu_mem_used",
                  "gpu_mem_total", "network_rx_sec", "network_tx_sec", "created_at"}),
       Statement("createIndex", "metrics_raw", {"idx_metrics_timestamp"}),
       Statement("createIndex", "metrics_raw", {"idx_metrics_created"}),
       Statement("createTable", "metrics_hourly",
                 {"id", "hour_start", "cpu_load_avg", "cpu_load_min", "cpu_load_max",
                  "cpu_temp_avg", "cpu_temp_max", "ram_percent_avg", "ram_percent_min",
                  "ram_percent_max", "ram_used_avg", "gpu_util_avg", "gpu_util_min",
                  "gpu_util_max", "gpu_temp_avg", "gpu_temp_max", "network_rx_total",
                  "network_tx_total", "network_rx_avg", "network_tx_avg", "sample_count",
                  "created_at"}),
       Statement("createIndex", "metrics_hourly", {"idx_hourly_start"}),
       Statement("createTable", "metrics_daily",
                 {"id", "day_start", "cpu_load_avg", "cpu_load_min", "cpu_load_max",
                  "cpu_temp_avg", "cpu_temp_max", "ram_percent_avg", "ram_percent_min",
                  "ram_percent_max", "gpu_util_avg", "gpu_util_min", "gpu_util_max",
                  "gpu_temp_avg", "gpu_temp_max", "network_rx_total", "network_tx_total",
                  "sample_count", "created_at"}),
       Statement("createIndex", "metrics_daily", {"idx_daily_start"}),
       Statement("createTable", "system_events",
                 {"id", "timestamp", "event_type", "metadata", "created_at"}),
       Statement("createIndex", "system_events", {"idx_events_timestamp"}),
       Statement("createTable", "db_metadata", {"key", "value", "updated_at"}),
       Statement("insertOrIgnore", "db_metadata", {}) >>

\* 002-add-machines.sql: the machines table, the machine_id columns and the
\* default localhost machine
AddMachinesSql ==
    << Statement("createTable", "machines",
                 {"id", "machine_id", "hostname", "display_name", "ip_address",
                  "last_seen", "is_active", "metadata", "created_at", "updated_at"}),
       Statement("createIndex", "machines", {"idx_machines_id"}),
       Statement("createIndex", "machines", {"idx_machines_active"}),
       Statement("createIndex", "machines", {"idx_machines_last_seen"}),
       Statement("addColumn", "metrics_raw", {"machine_id"}),
       Statement("addColumn", "metrics_hourly", {"machine_id"}),
       Statement("addColumn", "metrics_daily", {"machine_id"}),
       Statement("addColumn", "system_events", {"machine_id"}),
       Statement("createIndex", "metrics_raw", {"idx_metrics_raw_machine"}),
       Statement("createIndex", "metrics_hourly", {"idx_metrics_hourly_machine"}),
       Statement("createIndex", "metrics_daily", {"idx_metrics_daily_machine"}),
       Statement("createIndex", "system_events", {"idx_events_machine"}),
       Statement("insertOrIgnore", "machines", {}) >>

\* The detailed memory metrics migration
DetailedMemorySql ==
    << Statement("addColumn", "metrics_raw", {"ram_free"}),
       Statement("addColumn", "metrics_raw", {"ram_available"}),
       Statement("addColumn", "metrics_raw", {"swap_total"}),
       Statement("addColumn", "metrics_raw", {"swap_used"}),
       Statement("addColumn", "metrics_raw", {"swap_percent"}) >>

\* fs.readdirSync(MIGRATIONS_DIR).filter(f => f.endsWith('.sql')).sort()
Migrations == <<InitialSchemaSql, AddMachinesSql, DetailedMemorySql>>

\* A database file that was just created
FreshStore ==
    [schema |-> [tables |-> [x \in {} |-> {}], indexes |-> {}],
     machines |-> [x \in {} |-> {}],
     db_metadata |-> [x \in {} |-> {}]]

WithTable(sch, table, columns) ==
    [sch EXCEPT !.tables = [x \in DOMAIN sch.tables \cup {table} |->
                               IF x = table THEN columns ELSE sch.tables[x]]]

\* SQLite runs one statement; t is the clock.  CREATE ... IF NOT EXISTS and
\* INSERT OR IGNORE leave what is there; ALTER TABLE ADD COLUMN is an
\* error when the table is missing or has a column of that name.
ExecStatement(st, stmt, t) ==
    LET tables == st.schema.tables
        known == stmt.table \in DOMAIN tables
        failed == [threw |-> TRUE, st |-> st]
        done(x) == [threw |-> FALSE, st |-> x]
    IN  CASE stmt.kind = "createTable" ->
               IF known THEN done(st)
               ELSE done([st EXCEPT !.schema = WithTable(st.schema, stmt.table, stmt.columns)])
          [] stmt.kind = "createIndex" ->
               IF ~known THEN failed
               ELSE done([st EXCEPT !.schema.indexes = @ \cup stmt.columns])
          [] stmt.kind = "addColumn" ->
               IF ~known \/ stmt.columns \subseteq tables[stmt.table] THEN failed
               ELSE done([st EXCEPT !.schema =
                             WithTable(st.schema, stmt.table,
                                       tables[stmt.table] \cup stmt.columns)])
          [] stmt.kind = "insertOrIgnore" /\ stmt.table = "db_metadata" ->
               IF ~known THEN failed
               ELSE done([st EXCEPT !.db_metadata =
                             [k \in DOMAIN st.db_metadata \cup DOMAIN DefaultMetadata |->
                                 IF k \in DOMAIN st.db_metadata THEN st.db_metadata[k]
                                 ELSE DefaultMetadata[k]]])
          [] stmt.kind = "insertOrIgnore" /\ stmt.table = "machines" ->
               IF ~known THEN failed
               ELSE IF "localhost" \in DOMAIN st.machines THEN done(st)
               ELSE done([st EXCEPT !.machines =
                             [x \in DOMAIN st.machines \cup {"localhost"} |->
                                 IF x = "localhost"
                                 THEN [hostname |-> Some("localhost"),
                                       display_name |-> Some("Local Machine"),
                                       ip_address |-> Null, last_seen |-> t,
                                       is_active |-> 1, metadata |-> Null]
                                 ELSE st.machines[x]]])

\* db.exec(sql): the statements in turn; the first error stops the script
\* and is thrown, what ran before it stays.
RECURSIVE Exec(_, _, _, _)
Exec(st, sql, i, t) ==
    IF i > Len(sql) THEN [threw |-> FALSE, st |-> st]
    ELSE LET r == ExecStatement(st, sql[i], t)
         IN  IF r.threw THEN r ELSE Exec(r.st, sql, i + 1, t)

\* runMigrations(): every migration file, in the order of their names, on
\* every start; an error of exec leaves the loop and the constructor.
RECURSIVE RunMigrations(_, _, _)
RunMigrations(st, i, t) ==
    IF i > Len(Migrations) THEN [threw |-> FALSE, st |-> st]
    ELSE LET r == Exec(st, Migrations[i], 1, t)
         IN  IF r.threw THEN r ELSE RunMigrations(r.st, i + 1, t)

----------------------------------------------------------------------------
(* What the caller of the last operation saw *)

\* op: the operation; mid, body, batch: its inputs (batch: the samples handed
\* to insertMetricsBatch); n: the length of the array it worked on; threw: the
\* store call threw; raised, ret: whether the operation raised to its caller
\* and what it returned; status, count: the HTTP answer; errors: lines written
\* to console.error; bucket: the bucket a job worked on; granularity, from,
\* to: the resolution and the range a query or a cleanup was asked for; used,
\* data: the resolution a query reports and its rows; scope: the machine a
\* cleanup was scoped to (Null: all); days: the age threshold of a manual
\* cleanup; deleted: the number of deleted rows an operation reported; start,
\* end, period: the texts of a query's parameters (Null: absent); reads: the
\* calls of getMetrics the operation made.
NoLast ==
    [op |-> "init", mid |-> "localhost", status |-> 0, count |-> 0, n |-> 0,
     batch |-> <<>>, body |-> Body(Null, Null, Null, Null),
     threw |-> FALSE, raised |-> FALSE, ret |-> "undefined", errors |-> 0,
     bucket |-> 0, granularity |-> "", used |-> "", data |-> <<>>,
     from |-> 0, to |-> 0, scope |-> Null, days |-> 0, deleted |-> 0,
     start |-> Null, end |-> Null, period |-> "", reads |-> 0]

\* The rows of last.data as a set
DataRows == {last.data[i] : i \in 1..Len(last.data)}

----------------------------------------------------------------------------
(* Initial state: the migrations have run (the default localhost machine   *)
(* is in place) and the writer is constructed but not started.             *)

Init ==
    /\ now = T0
    /\ machines = [x \in {"localhost"} |->
                     [hostname |-> Some("localhost"), display_name |-> Some("Local Machine"),
                      ip_address |-> Null, last_seen |-> T0, is_active |-> 1,
                      metadata |-> Null]]
    /\ raw = EmptyBag
    /\ hourly = {}
    /\ daily = {}
    /\ db_metadata = DefaultMetadata
    /\ queue = <<>>
    /\ isRunning = FALSE
    /\ intervalId = Null
    /\ last = NoLast
    /\ posted = EmptyBag
    /\ arrivals = <<>>
    /\ evictLog = <<>>
    /\ schema = RunMigrations(FreshStore, 1, T0).st.schema
    /\ dbInstance = TRUE
    /\ metricsBuffer = <<>>
    /\ isSubmitting = FALSE
    /\ batchInFlight = <<>>
    /\ collected = 0
    /\ delivered = <<>>
    /\ systemInfoSent = FALSE
    /\ serverHasInfo = FALSE
    /\ agentProc = [state |-> "running", atSignal |-> <<>>]
    /\ submitted = {}
    /\ conns = <<>>
    /\ jobs = {}
    /\ closing = 0

\* The clock moves on to a later reading.
Tick(T) ==
    /\ \E t \in T : t > now /\ now' = t
    /\ last' = [NoLast EXCEPT !.op = "tick"]
    /\ UNCHANGED <<machines, raw, posted, hourly, daily, db_metadata, writerVars, startVars, agentVars, liveVars>>

----------------------------------------------------------------------------
(* routes/machines.js *)

\* POST /:machine_id/register.  ioError: the store statement throws.
Register(mid, body, ioError) ==
    LET machine == [machine_id |-> mid,
                    hostname |-> OrStr(body.hostname, Null),
                    display_name |-> OrStr(body.display_name,
                                           OrStr(body.hostname, Some(mid))),
                    ip_address |-> OrStr(body.ip_address, Null),
                    last_seen |-> Some(now),
                    metadata |-> OrStr(body.metadata, Null)]
    IN  /\ IF ioError
           THEN /\ machines' = machines
                /\ last' = [NoLast EXCEPT !.op = "register", !.mid = mid, !.body = body,
                                          !.status = 500, !.threw = TRUE]
           ELSE /\ machines' = UpsertMachine(machines, machine, now)
                /\ last' = [NoLast EXCEPT !.op = "register", !.mid = mid, !.body = body,
                                          !.status = 200]
        /\ UNCHANGED <<raw, posted, hourly, daily, now, db_metadata, writerVars, startVars, agentVars, liveVars>>

\* POST /:machine_id/metrics.  metrics is Null when the body carries no
\* array; failAt is the sample whose INSERT meets a disk error (0: none).
PostMetrics(mid, body, reqIp, metrics, failAt) ==
    IF metrics = Null
    THEN /\ last' = [NoLast EXCEPT !.op = "postMetrics", !.mid = mid, !.body = body,
                                   !.status = 400]
         /\ UNCHANGED <<machines, raw, posted, hourly, daily, now, db_metadata, writerVars, startVars, agentVars, liveVars>>
    ELSE LET machineData == [machine_id |-> mid,
                             hostname |-> OrStr(body.hostname, Null),
                             display_name |-> OrStr(body.display_name,
                                                    OrStr(body.hostname, Some(mid))),
                             ip_address |-> OrStr(body.ip_address, OrStr(reqIp, Null)),
                             last_seen |-> Some(now),
                             metadata |-> body.metadata]
             upserted == UpsertMachine(machines, machineData, now)
             metricsWithMachineId == WithMachineId(Val(metrics), mid)
             r == InsertMetricsBatch([machines |-> upserted, raw |-> raw],
                                     metricsWithMachineId, failAt)
         IN  /\ machines' = r.machines
             /\ raw' = r.raw
             /\ posted' = IF r.threw THEN posted ELSE posted (+) SeqToBag(metricsWithMachineId)
             /\ last' = [NoLast EXCEPT !.op = "postMetrics", !.mid = mid, !.body = body,
                                       !.n = Len(Val(metrics)),
                                       !.status = IF r.threw THEN 500 ELSE 200,
                                       !.threw = r.threw,
                                       !.count = IF r.threw THEN 0 ELSE Len(Val(metrics))]
             /\ UNCHANGED <<hourly, daily, now, db_metadata, writerVars, startVars, agentVars, liveVars>>

\* A direct call of db.insertMetricsBatch(metrics).
InsertBatchCall(metrics, failAt) ==
    LET r == InsertMetricsBatch([machines |-> machines, raw |-> raw], metrics, failAt)
    IN  /\ machines' = r.machines
        /\ raw' = r.raw
        /\ posted' = IF r.threw THEN posted ELSE posted (+) SeqToBag(metrics)
        /\ last' = [NoLast EXCEPT !.op = "insertMetricsBatch", !.batch = metrics,
                                  !.n = Len(metrics), !.threw = r.threw]
        /\ UNCHANGED <<hourly, daily, now, db_metadata, writerVars, startVars, agentVars, liveVars>>

\* Query parameters are texts, sequences of characters: a digit is the
\* number 0..9, any other character a number above 9.

\* String(n): the decimal text of a timestamp
RECURSIVE Digits(_)
Digits(n) == IF n < 10 THEN <<n>> ELSE Append(Digits(n \div 10), n % 10)

\* A text that is neither a number nor a date: 'xx'
BadText == <<99, 99>>

\* isNaN(text) for a non-empty text
isNaN(text) == \E i \in 1..Len(text) : text[i] \notin 0..9

\* isNaN(start) ? new Date(start).getTime() : parseInt(start).  NaN is Null;
\* the non-numeric texts drawn here are no dates, so getTime() is NaN.
ParseTimestamp(text) == IF isNaN(text) THEN Null ELSE Some(parseInt(text))

\* GET /range.  start, end, granularity and machine_id are the query
\* parameters, Null when absent.  The answer carries the granularity
\* getMetrics reports and the number of rows it returned; data is the rows
\* themselves, which the route sends on regrouped by field.
GetRange(machine_id, start, end, granularity) ==
    LET g == Val(OrStr(granularity, Some("auto")))
        m == Val(OrStr(machine_id, Some("localhost")))
        asked == [NoLast EXCEPT !.op = "range", !.mid = m, !.granularity = g,
                                !.start = start, !.end = end]
    IN  /\ IF start = Null \/ end = Null
           THEN last' = [asked EXCEPT !.status = 400]
           ELSE LET startTimestamp == ParseTimestamp(Val(start))
                    endTimestamp == ParseTimestamp(Val(end))
                IN  IF startTimestamp = Null \/ endTimestamp = Null
                    THEN last' = [asked EXCEPT !.status = 400]
                    ELSE IF Val(startTimestamp) >= Val(endTimestamp)
                    THEN last' = [asked EXCEPT !.from = Val(startTimestamp),
                                               !.to = Val(endTimestamp),
                                               !.status = 400]
                    ELSE LET result == GetMetrics([raw |-> raw, hourly |-> hourly,
                                                   daily |-> daily],
                                                  m, Val(startTimestamp),
                                                  Val(endTimestamp), g)
                         IN  last' = [asked EXCEPT
                                        !.from = Val(startTimestamp),
                                        !.to = Val(endTimestamp),
                                        !.reads = 1,
                                        !.threw = result.threw,
                                        !.status = IF result.threw THEN 500 ELSE 200,
                                        !.used = IF result.threw THEN ""
                                                 ELSE result.granularity,
                                        !.data = result.data,
                                        !.count = Len(result.data)]
        /\ UNCHANGED <<machines, raw, posted, hourly, daily, now, db_metadata, writerVars, startVars, agentVars, liveVars>>

\* GET /export/csv: the parameters of GET /range; the rows go out as CSV.
\* The route checks that start and end are there and are timestamps, then
\* calls getMetrics.
ExportCsv(machine_id, start, end, granularity) ==
    LET g == Val(OrStr(granularity, Some("auto")))
        m == Val(OrStr(machine_id, Some("localhost")))
        asked == [NoLast EXCEPT !.op = "exportCsv", !.mid = m, !.granularity = g,
                                !.start = start, !.end = end]
    IN  /\ IF start = Null \/ end = Null
           THEN last' = [asked EXCEPT !.status = 400]
           ELSE LET startTimestamp == ParseTimestamp(Val(start))
                    endTimestamp == ParseTimestamp(Val(end))
                IN  IF startTimestamp = Null \/ endTimestamp = Null
                    THEN last' = [asked EXCEPT !.status = 400]
                    ELSE LET result == GetMetrics([raw |-> raw, hourly |-> hourly,
                                                   daily |-> daily],
                                                  m, Val(startTimestamp),
                                                  Val(endTimestamp), g)
                         IN  last' = [asked EXCEPT
                                        !.from = Val(startTimestamp),
                                        !.to = Val(endTimestamp),
                                        !.reads = 1,
                                        !.threw = result.threw,
                                        !.status = IF result.threw THEN 500 ELSE 200,
                                        !.used = IF result.threw THEN ""
                                                 ELSE result.granularity,
                                        !.data = result.data,
                                        !.count = Len(result.data)]
        /\ UNCHANGED <<machines, raw, posted, hourly, daily, now, db_metadata, writerVars, startVars, agentVars, liveVars>>

\* const periodMs = {'24h': ..., '7d': ..., '30d': ..., '90d': ...}; Null for
\* a period the table lacks
PeriodMs(period) ==
    CASE period = "24h" -> Some(24 * HOUR)
      [] period = "7d" -> Some(7 * DAY)
      [] period = "30d" -> Some(30 * DAY)
      [] period = "90d" -> Some(90 * DAY)
      [] OTHER -> Null

\* GET /summary.  For period 'custom' the route checks only that start and
\* end are there, parses them and calls getMetrics.  With a NaN bound the
\* duration is NaN, which fails both comparisons of getMetrics (daily), and
\* the statement, bound to NULL, selects no row; toISOString() of the NaN
\* date then throws, which the route answers with 500.
GetSummary(machine_id, period, start, end) ==
    LET pd == Val(OrStr(period, Some("24h")))
        m == Val(OrStr(machine_id, Some("localhost")))
        asked == [NoLast EXCEPT !.op = "summary", !.mid = m, !.granularity = "auto",
                                !.period = pd, !.start = start, !.end = end]
        store == [raw |-> raw, hourly |-> hourly, daily |-> daily]
        Answer(startTimestamp, endTimestamp) ==
            LET result == GetMetrics(store, m, startTimestamp, endTimestamp, "auto")
            IN  [asked EXCEPT !.from = startTimestamp, !.to = endTimestamp,
                              !.reads = 1, !.status = 200,
                              !.used = result.granularity,
                              !.data = result.data,
                              !.count = Len(result.data)]
    IN  /\ IF pd = "custom"
           THEN IF start = Null \/ end = Null
                THEN last' = [asked EXCEPT !.status = 400]
                ELSE LET startTimestamp == ParseTimestamp(Val(start))
                         endTimestamp == ParseTimestamp(Val(end))
                     IN  IF startTimestamp = Null \/ endTimestamp = Null
                         THEN last' = [asked EXCEPT !.reads = 1, !.used = "daily",
                                                    !.threw = TRUE, !.status = 500]
                         ELSE last' = Answer(Val(startTimestamp), Val(endTimestamp))
           ELSE IF PeriodMs(pd) = Null
                THEN last' = [asked EXCEPT !.status = 400]
                ELSE last' = Answer(now - Val(PeriodMs(pd)), now)
        /\ UNCHANGED <<machines, raw, posted, hourly, daily, now, db_metadata, writerVars, startVars, agentVars, liveVars>>

----------------------------------------------------------------------------
(* The scheduled jobs: server/aggregator.js *)

\* The loop of runHourlyAggregation over the machines: aggregateHourly
\* for each in turn; the store throws at machine failAt (0: never), which
\* leaves the loop.
RECURSIVE HourlyLoop(_, _, _, _, _)
HourlyLoop(table, order, i, failAt, previousHour) ==
    IF i > Len(order) THEN [threw |-> FALSE, table |-> table]
    ELSE IF i = failAt THEN [threw |-> TRUE, table |-> table]
    ELSE HourlyLoop(AggregateHourly(raw, table, order[i], previousHour).table,
                    order, i + 1, failAt, previousHour)

\* The loop of runDailyAggregation over the machines
RECURSIVE DailyLoop(_, _, _, _, _)
DailyLoop(table, order, i, failAt, previousDay) ==
    IF i > Len(order) THEN [threw |-> FALSE, table |-> table]
    ELSE IF i = failAt THEN [threw |-> TRUE, table |-> table]
    ELSE DailyLoop(AggregateDaily(hourly, table, order[i], previousDay).table,
                   order, i + 1, failAt, previousDay)

\* runHourlyAggregation that aggregates the hour still running
RunHourlyAggregationCurrentHour(order, failAt) ==
    LET currentHour == (now \div HOUR) * HOUR
        r == HourlyLoop(hourly, order, 1, failAt, currentHour)
    IN  /\ hourly' = r.table
        /\ last' = [NoLast EXCEPT !.op = "hourlyJob", !.bucket = currentHour,
                                  !.threw = r.threw,
                                  !.mid = IF r.threw THEN order[failAt] ELSE "localhost"]
        /\ UNCHANGED <<machines, raw, posted, daily, now, db_metadata, writerVars, startVars, agentVars, liveVars>>

\* runHourlyAggregation(): the previous hour, every machine; errors are
\* caught and logged by the one try/catch around the whole body.  When the
\* store threw, mid is the machine it threw at.
RunHourlyAggregation(order, failAt) ==
    LET currentHour == (now \div HOUR) * HOUR
        previousHour == currentHour - HOUR
        r == HourlyLoop(hourly, order, 1, failAt, previousHour)
    IN  /\ hourly' = r.table
        /\ last' = [NoLast EXCEPT !.op = "hourlyJob", !.bucket = previousHour,
                                  !.threw = r.threw,
                                  !.mid = IF r.threw THEN order[failAt] ELSE "localhost"]
        /\ UNCHANGED <<machines, raw, posted, daily, now, db_metadata, writerVars, startVars, agentVars, liveVars>>

\* runDailyAggregation(): the previous day, every machine.
RunDailyAggregation(order, failAt) ==
    LET currentDay == (now \div DAY) * DAY
        previousDay == currentDay - DAY
        r == DailyLoop(daily, order, 1, failAt, previousDay)
    IN  /\ daily' = r.table
        /\ last' = [NoLast EXCEPT !.op = "dailyJob", !.bucket = previousDay,
                                  !.threw = r.threw,
                                  !.mid = IF r.threw THEN order[failAt] ELSE "localhost"]
        /\ UNCHANGED <<machines, raw, posted, hourly, now, db_metadata, writerVars, startVars, agentVars, liveVars>>

\* The while loop of aggregateRange over the hour buckets from current up
\* to, not including, end
RECURSIVE RangeHourlyLoop(_, _, _, _, _)
RangeHourlyLoop(table, machineId, current, end, results) ==
    IF ~(current < end) THEN [table |-> table, results |-> results]
    ELSE LET r == AggregateHourly(raw, table, machineId, current)
         IN  RangeHourlyLoop(r.table, machineId, current + HOUR, end,
                             IF r.result # Null THEN Append(results, Val(r.result))
                             ELSE results)

\* The while loop of aggregateRange over the day buckets
RECURSIVE RangeDailyLoop(_, _, _, _, _)
RangeDailyLoop(table, machineId, current, end, results) ==
    IF ~(current < end) THEN [table |-> table, results |-> results]
    ELSE LET r == AggregateDaily(hourly, table, machineId, current)
         IN  RangeDailyLoop(r.table, machineId, current + DAY, end,
                            IF r.result # Null THEN Append(results, Val(r.result))
                            ELSE results)

\* aggregateRange that starts its first bucket at startTimestamp itself
AggregateRangeFromStart(machineId, startTimestamp, endTimestamp, granularity) ==
    LET g == Val(OrStr(granularity, Some("hourly")))
        h == RangeHourlyLoop(hourly, machineId, startTimestamp,
                             (endTimestamp \div HOUR) * HOUR, <<>>)
        d == RangeDailyLoop(daily, machineId, startTimestamp,
                            (endTimestamp \div DAY) * DAY, <<>>)
    IN  /\ hourly' = IF g = "hourly" THEN h.table ELSE hourly
        /\ daily' = IF g = "daily" THEN d.table ELSE daily
        /\ last' = [NoLast EXCEPT !.op = "aggregateRange", !.mid = machineId,
                                  !.granularity = g,
                                  !.from = startTimestamp, !.to = endTimestamp,
                                  !.data = IF g = "hourly" THEN h.results
                                           ELSE IF g = "daily" THEN d.results
                                           ELSE <<>>]
        /\ UNCHANGED <<machines, raw, posted, now, db_metadata, writerVars, startVars, agentVars, liveVars>>

\* aggregateRange(machineId, startTimestamp, endTimestamp, granularity):
\* granularity is Null when the argument is left out ('hourly'); data is the
\* array of summaries it returns.
AggregateRange(machineId, startTimestamp, endTimestamp, granularity) ==
    LET g == Val(OrStr(granularity, Some("hourly")))
        h == RangeHourlyLoop(hourly, machineId, (startTimestamp \div HOUR) * HOUR,
                             (endTimestamp \div HOUR) * HOUR, <<>>)
        d == RangeDailyLoop(daily, machineId, (startTimestamp \div DAY) * DAY,
                            (endTimestamp \div DAY) * DAY, <<>>)
    IN  /\ hourly' = IF g = "hourly" THEN h.table ELSE hourly
        /\ daily' = IF g = "daily" THEN d.table ELSE daily
        /\ last' = [NoLast EXCEPT !.op = "aggregateRange", !.mid = machineId,
                                  !.granularity = g,
                                  !.from = startTimestamp, !.to = endTimestamp,
                                  !.data = IF g = "hourly" THEN h.results
                                           ELSE IF g = "daily" THEN d.results
                                           ELSE <<>>]
        /\ UNCHANGED <<machines, raw, posted, now, db_metadata, writerVars, startVars, agentVars, liveVars>>

HourlyJob == \E order \in GetMachinesOrders(machines) : \E failAt \in 0..Len(order) :
    RunHourlyAggregation(order, failAt)

DailyJob == \E order \in GetMachinesOrders(machines) : \E failAt \in 0..Len(order) :
    RunDailyAggregation(order, failAt)

\* runCleanup(): db.cleanup() over every machine getMachines returns; errors
\* are caught and logged.
RunCleanup(order) ==
    LET r == Cleanup([raw |-> raw, hourly |-> hourly, daily |-> daily,
                      db_metadata |-> db_metadata], Null, order, now)
    IN  /\ raw' = r.raw
        /\ hourly' = r.hourly
        /\ daily' = r.daily
        /\ last' = [NoLast EXCEPT !.op = "cleanupJob", !.deleted = r.deletedCount]
        /\ UNCHANGED <<machines, posted, now, db_metadata, writerVars, startVars, agentVars, liveVars>>

\* A direct call of db.cleanup(machineId) for one machine.
CleanupCall(machineId) ==
    LET r == Cleanup([raw |-> raw, hourly |-> hourly, daily |-> daily,
                      db_metadata |-> db_metadata], Some(machineId), <<>>, now)
    IN  /\ raw' = r.raw
        /\ hourly' = r.hourly
        /\ daily' = r.daily
        /\ last' = [NoLast EXCEPT !.op = "cleanup", !.scope = Some(machineId),
                                  !.deleted = r.deletedCount]
        /\ UNCHANGED <<machines, posted, now, db_metadata, writerVars, startVars, agentVars, liveVars>>

\* A direct call of db.stmts.setMetadata.run(key, value).
SetMetadataCall(key, value) ==
    /\ db_metadata' = SetMetadata(db_metadata, key, value)
    /\ last' = [NoLast EXCEPT !.op = "setMetadata"]
    /\ UNCHANGED <<machines, raw, posted, hourly, daily, now, writerVars, startVars, agentVars, liveVars>>

\* POST /cleanup.  older_than_days and granularity are the body's fields,
\* Null when absent.  The route runs the DELETE statement of the tier with
\* one value, cutoffTimestamp.
ManualCleanup(older_than_days, granularity) ==
    IF older_than_days = Null \/ older_than_days = Some(0) \/ granularity = Null
    THEN /\ last' = [NoLast EXCEPT !.op = "manualCleanup", !.status = 400]
         /\ UNCHANGED <<machines, raw, posted, hourly, daily, now, db_metadata, writerVars, startVars, agentVars, liveVars>>
    ELSE IF Val(granularity) \notin {"raw", "hourly", "daily"}
    THEN /\ last' = [NoLast EXCEPT !.op = "manualCleanup", !.status = 400,
                                   !.granularity = Val(granularity),
                                   !.days = Val(older_than_days)]
         /\ UNCHANGED <<machines, raw, posted, hourly, daily, now, db_metadata, writerVars, startVars, agentVars, liveVars>>
    ELSE LET cutoffTimestamp == now - Val(older_than_days) * DAY
             g == Val(granularity)
             rawResult == IF g = "raw" THEN DeleteOldRawMetrics(raw, <<cutoffTimestamp>>)
                          ELSE [threw |-> FALSE, table |-> raw, changes |-> 0]
             hourlyResult == IF g = "hourly"
                             THEN DeleteOldHourlyMetrics(hourly, <<cutoffTimestamp>>)
                             ELSE [threw |-> FALSE, table |-> hourly, changes |-> 0]
             dailyResult == IF g = "daily"
                            THEN DeleteOldDailyMetrics(daily, <<cutoffTimestamp>>)
                            ELSE [threw |-> FALSE, table |-> daily, changes |-> 0]
             threw == rawResult.threw \/ hourlyResult.threw \/ dailyResult.threw
             deletedCount == rawResult.changes + hourlyResult.changes + dailyResult.changes
         IN  /\ raw' = rawResult.table
             /\ hourly' = hourlyResult.table
             /\ daily' = dailyResult.table
             /\ last' = [NoLast EXCEPT !.op = "manualCleanup", !.granularity = g,
                                       !.days = Val(older_than_days),
                                       !.threw = threw,
                                       !.status = IF threw THEN 500 ELSE 200,
                                       !.deleted = IF threw THEN 0 ELSE deletedCount]
             /\ UNCHANGED <<machines, posted, now, db_metadata, writerVars, startVars, agentVars, liveVars>>

----------------------------------------------------------------------------
(* The writer: server/metrics-writer.js *)

\* this.maxQueueSize = options.maxQueueSize || 100
maxQueueSize == IF MaxQueueSize = 0 THEN DefaultMaxQueueSize ELSE MaxQueueSize

\* enqueue that never drops
EnqueueKeepsAll(w, metric) ==
    [queue |-> Append(w.queue, metric), machines |-> w.machines, raw |-> w.raw,
     dropped |-> Null, submitted |-> <<>>]

\* enqueue that refuses the new sample when the queue is full
EnqueueDropNewest(w, metric) ==
    IF Len(w.queue) >= maxQueueSize
    THEN [queue |-> w.queue, machines |-> w.machines, raw |-> w.raw,
          dropped |-> Some(metric), submitted |-> <<>>]
    ELSE [queue |-> Append(w.queue, metric), machines |-> w.machines, raw |-> w.raw,
          dropped |-> Null, submitted |-> <<>>]

\* enqueue that writes the queue out as soon as it is full
EnqueueEager(w, metric) ==
    LET pushed == Append(w.queue, metric)
    IN  IF Len(pushed) >= maxQueueSize
        THEN LET r == InsertMetricsBatch([machines |-> w.machines, raw |-> w.raw], pushed, 0)
             IN  [queue |-> IF r.threw THEN pushed ELSE <<>>,
                  machines |-> r.machines, raw |-> r.raw,
                  dropped |-> Null, submitted |-> pushed]
        ELSE [queue |-> pushed, machines |-> w.machines, raw |-> w.raw,
              dropped |-> Null, submitted |-> <<>>]

\* enqueue(metric).  w is [queue, machines, raw].  dropped: the sample the
\* warning reports; submitted: the samples handed to the store (none: enqueue
\* only touches the queue).
Enqueue(w, metric) ==
    LET pushed == Append(w.queue, metric)
    IN  IF Len(pushed) > maxQueueSize
        THEN [queue |-> Tail(pushed), machines |-> w.machines, raw |-> w.raw,
              dropped |-> Some(Head(pushed)), submitted |-> <<>>]
        ELSE [queue |-> pushed, machines |-> w.machines, raw |-> w.raw,
              dropped |-> Null, submitted |-> <<>>]

\* flush that requeues only when the queue stays below its maximum
FlushStrictRequeue(w, failAt) ==
    IF Len(w.queue) = 0
    THEN [queue |-> w.queue, machines |-> w.machines, raw |-> w.raw, threw |-> FALSE,
          raised |-> FALSE, ret |-> "undefined", errors |-> 0, submitted |-> <<>>]
    ELSE LET batch == w.queue
             rest == <<>>
             r == InsertMetricsBatch([machines |-> w.machines, raw |-> w.raw], batch, failAt)
         IN  IF ~r.threw
             THEN [queue |-> rest, machines |-> r.machines, raw |-> r.raw, threw |-> FALSE,
                   raised |-> FALSE, ret |-> "undefined", errors |-> 0, submitted |-> batch]
             ELSE IF Len(rest) + Len(batch) < maxQueueSize
             THEN [queue |-> batch \o rest, machines |-> r.machines, raw |-> r.raw,
                   threw |-> TRUE, raised |-> FALSE, ret |-> "undefined", errors |-> 1,
                   submitted |-> batch]
             ELSE [queue |-> rest, machines |-> r.machines, raw |-> r.raw,
                   threw |-> TRUE, raised |-> FALSE, ret |-> "undefined", errors |-> 2,
                   submitted |-> batch]

\* flush that requeues and then rethrows the store's error
FlushRethrow(w, failAt) ==
    IF Len(w.queue) = 0
    THEN [queue |-> w.queue, machines |-> w.machines, raw |-> w.raw, threw |-> FALSE,
          raised |-> FALSE, ret |-> "undefined", errors |-> 0, submitted |-> <<>>]
    ELSE LET batch == w.queue
             r == InsertMetricsBatch([machines |-> w.machines, raw |-> w.raw], batch, failAt)
         IN  IF ~r.threw
             THEN [queue |-> <<>>, machines |-> r.machines, raw |-> r.raw, threw |-> FALSE,
                   raised |-> FALSE, ret |-> "undefined", errors |-> 0, submitted |-> batch]
             ELSE [queue |-> batch, machines |-> r.machines, raw |-> r.raw,
                   threw |-> TRUE, raised |-> TRUE, ret |-> "undefined", errors |-> 1,
                   submitted |-> batch]

\* flush().  failAt: the sample whose INSERT meets a disk error (0: none).
\* batch = queue.splice(0) leaves the queue empty (rest); the catch block
\* logs, requeues the batch in front of the queue when it fits, and swallows
\* the error.  threw: the store threw; raised, ret: what flush's caller sees;
\* errors: lines written to console.error.
Flush(w, failAt) ==
    IF Len(w.queue) = 0
    THEN [queue |-> w.queue, machines |-> w.machines, raw |-> w.raw, threw |-> FALSE,
          raised |-> FALSE, ret |-> "undefined", errors |-> 0, submitted |-> <<>>]
    ELSE LET batch == w.queue
             rest == <<>>
             r == InsertMetricsBatch([machines |-> w.machines, raw |-> w.raw], batch, failAt)
         IN  IF ~r.threw
             THEN [queue |-> rest, machines |-> r.machines, raw |-> r.raw, threw |-> FALSE,
                   raised |-> FALSE, ret |-> "undefined", errors |-> 0, submitted |-> batch]
             ELSE IF Len(rest) + Len(batch) <= maxQueueSize
             THEN [queue |-> batch \o rest, machines |-> r.machines, raw |-> r.raw,
                   threw |-> TRUE, raised |-> FALSE, ret |-> "undefined", errors |-> 1,
                   submitted |-> batch]
             ELSE [queue |-> rest, machines |-> r.machines, raw |-> r.raw,
                   threw |-> TRUE, raised |-> FALSE, ret |-> "undefined", errors |-> 2,
                   submitted |-> batch]

Writer == [queue |-> queue, machines |-> machines, raw |-> raw]

\* What a flush leaves in the variables; op names the caller.
FlushEffect(f, op) ==
    /\ queue' = f.queue
    /\ machines' = f.machines
    /\ raw' = f.raw
    /\ posted' = IF f.threw \/ f.submitted = <<>> THEN posted
                 ELSE posted (+) SeqToBag(f.submitted)
    /\ arrivals' = f.queue
    /\ evictLog' = <<>>
    /\ last' = [NoLast EXCEPT !.op = op, !.batch = f.submitted, !.n = Len(queue),
                              !.threw = f.threw, !.raised = f.raised, !.ret = f.ret,
                              !.errors = f.errors]

\* start(): arms the timer unless the writer is already running.
Start ==
    /\ IF isRunning
       THEN UNCHANGED <<isRunning, intervalId>>
       ELSE isRunning' = TRUE /\ intervalId' = Some(1)
    /\ last' = [NoLast EXCEPT !.op = "start"]
    /\ UNCHANGED <<machines, raw, posted, hourly, daily, now, db_metadata, queue, arrivals, evictLog, startVars, agentVars, liveVars>>

\* The timer set by start() fires: this.flush()
TimerFlush(failAt) ==
    /\ intervalId # Null
    /\ FlushEffect(Flush(Writer, failAt), "flush")
    /\ UNCHANGED <<hourly, daily, now, db_metadata, isRunning, intervalId, startVars, agentVars, liveVars>>

\* stop(): disarms the timer, flushes what is queued, marks the writer
\* stopped; op names the caller.
StopEffect(failAt, op) ==
    /\ intervalId' = Null
    /\ IF Len(queue) > 0
       THEN FlushEffect(Flush(Writer, failAt), op)
       ELSE /\ last' = [NoLast EXCEPT !.op = op]
            /\ UNCHANGED <<queue, machines, raw, posted, arrivals, evictLog>>
    /\ isRunning' = FALSE

Stop(failAt) ==
    /\ StopEffect(failAt, "stop")
    /\ UNCHANGED <<hourly, daily, now, db_metadata, startVars, agentVars, liveVars>>

\* A caller (the sampling path of index.js) enqueues one sample.
EnqueueCall(metric) ==
    LET e == Enqueue(Writer, metric)
    IN  /\ queue' = e.queue
        /\ machines' = e.machines
        /\ raw' = e.raw
        /\ arrivals' = Append(arrivals, metric)
        /\ evictLog' = IF e.dropped = Null THEN evictLog ELSE Append(evictLog, Val(e.dropped))
        /\ last' = [NoLast EXCEPT !.op = "enqueue", !.batch = e.submitted,
                                  !.n = Len(queue) + 1]
        /\ UNCHANGED <<posted, hourly, daily, now, db_metadata, isRunning, intervalId, startVars, agentVars, liveVars>>

----------------------------------------------------------------------------
(* Steps: an operation with its inputs drawn from small sets *)

RegisterStep(Bs) == \E mid \in MachineIds, body \in Bs, ioError \in BOOLEAN :
    Register(mid, body, ioError)

\* Bs: request bodies; Ms: the metrics arrays (Null: no array in the body);
\* diskErrors: whether a statement of the batch may meet a disk error
PostMetricsStep(Bs, Ms, diskErrors) ==
    \E mid \in MachineIds, body \in Bs, reqIp \in ReqIps, metrics \in Ms :
        \E failAt \in 0..(IF metrics = Null \/ ~diskErrors THEN 0 ELSE Len(Val(metrics))) :
            /\ BagCardinality(raw) + (IF metrics = Null THEN 0 ELSE Len(Val(metrics))) <= MaxRaw
            /\ PostMetrics(mid, body, reqIp, metrics, failAt)

InsertBatchStep(Bt) ==
    \E mid \in MachineIds, b \in Bt :
        \E failAt \in 0..Len(b) :
            /\ BagCardinality(raw) + Len(b) <= MaxRaw
            /\ InsertBatchCall(WithMachineId(b, mid), failAt)

----------------------------------------------------------------------------
(* The machine registry: registration and ingestion upserts *)

RegistryRegister == RegisterStep(Bodies)

RegistryPost == PostMetricsStep(Bodies, {Some(<<>>), Some(<<Sample1800>>)}, TRUE)

RegistryTick == Tick(EarlyTimes)

\* C2: an upsert of a known machine that carries no metadata payload, or an
\* empty one, leaves the stored metadata as it was (and updates hostname,
\* display name, address and last-contact); a non-empty payload replaces it.
C2_MetadataPreservedWhenOmitted ==
    [][(/\ last'.op \in {"register", "postMetrics"}
        /\ last'.status = 200
        /\ last'.mid \in DOMAIN machines)
       => LET m == last'.mid
              payload == last'.body.metadata
          IN  /\ machines'[m].hostname = last'.body.hostname
              /\ IF payload = Null \/ payload = Some(<<>>)
                 THEN machines'[m].metadata = machines[m].metadata
                 ELSE machines'[m].metadata = Some(JSONstringify(Val(payload)))]_vars

\* C19: the stored last_seen of a machine never decreases, whatever upserts
\* and sample inserts run, batches of samples stamped before the machine's
\* current last_seen included.
C19_LastSeenMonotonic ==
    [][\A m \in DOMAIN machines :
          machines'[m].last_seen >= machines[m].last_seen]_vars

NextRegistry == RegistryRegister \/ RegistryPost \/ RegistryTick

SpecRegistry == Init /\ [][NextRegistry]_vars

----------------------------------------------------------------------------
(* The ingestion boundary and the batch insert *)

IngestPost == PostMetricsStep(IngestBodies, {Null} \cup {Some(b) : b \in Batches}, TRUE)

IngestBatch == InsertBatchStep(Batches)

\* Rows of machine mid stamped ts in the fine tier
CountRows(bag, mid, ts) ==
    LET hits == {r \in BagToSet(bag) : r.machine_id = mid /\ r.timestamp = ts}
        RECURSIVE Sum(_)
        Sum(S) == IF S = {} THEN 0
                  ELSE LET r == CHOOSE x \in S : TRUE
                       IN  CopiesIn(r, bag) + Sum(S \ {r})
    IN  Sum(hits)

\* Samples of machine mid stamped ts in a batch
CountSamples(batch, mid, ts) ==
    Cardinality({i \in 1..Len(batch) :
                    batch[i].machine_id = Some(mid) /\ batch[i].timestamp = Some(ts)})

SampleTimes == {T0, T0 + 1800, T0 + HOUR}

\* C3: insertMetricsBatch is atomic.  When the call throws, the fine tier
\* and the machines' last_seen are what they were before it; when it
\* returns, every sample of the batch has its row.
C3_BatchInsertAtomic ==
    [][last'.op = "insertMetricsBatch"
       => IF last'.threw
          THEN raw' = raw /\ machines' = machines
          ELSE /\ BagCardinality(raw') = BagCardinality(raw) + Len(last'.batch)
               /\ \A mid \in MachineIds, ts \in SampleTimes :
                     CountRows(raw', mid, ts)
                       = CountRows(raw, mid, ts) + CountSamples(last'.batch, mid, ts)]_vars

\* C3 witness: a two-sample batch threw on its second sample, after the
\* first sample's INSERT and last_seen UPDATE had run.
C3_Witness ==
    /\ last.op = "insertMetricsBatch"
    /\ last.threw
    /\ Len(last.batch) = 2
    /\ last.batch[1].cpu_load # Null

\* C4: a POST of a sample batch either persists every sample and answers
\* 200 with count = number of samples, or answers an error and leaves the
\* store (fine tier and machine registry) as it was before the request.
C4_IngestAllOrNothing ==
    [][last'.op = "postMetrics"
       => \/ /\ last'.status = 200
             /\ last'.count = last'.n
             /\ BagCardinality(raw') = BagCardinality(raw) + last'.n
          \/ /\ last'.status # 200
             /\ raw' = raw
             /\ machines' = machines]_vars

NextIngest == IngestPost \/ IngestBatch

SpecIngest == Init /\ [][NextIngest]_vars

----------------------------------------------------------------------------
(* Samples with fields the machine could not measure; no disk errors *)

\* Batches of samples that lack ram_percent, cpu_load, or the GPU and
\* network fields
NullableBatches ==
    SeqsUpTo({Sample1800, SampleNoCpu,
              Sample(Some(T0 + 1800), Some(20), Some(30), Null, Null)}, MaxBatch)

NullablePost == PostMetricsStep(IngestBodies, {Some(b) : b \in NullableBatches}, FALSE)

NullableBatch ==
    \E mid \in MachineIds, b \in NullableBatches :
        /\ BagCardinality(raw) + Len(b) <= MaxRaw
        /\ InsertBatchCall(WithMachineId(b, mid), 0)

\* C25: a batch in which some sample has a null numeric field other than
\* the timestamp (cpu_load, gpu_utilization, ...) is accepted and persisted
\* in full, by POST /:machine_id/metrics and by insertMetricsBatch.
C25_NullFieldsAccepted ==
    [][last'.op \in {"postMetrics", "insertMetricsBatch"}
       => /\ ~last'.threw
          /\ BagCardinality(raw') = BagCardinality(raw) + last'.n
          /\ last'.op = "postMetrics" => last'.status = 200 /\ last'.count = last'.n]_vars

NextNullable == NullablePost \/ NullableBatch

SpecNullable == Init /\ [][NextNullable]_vars

----------------------------------------------------------------------------
(* Rollups: ingestion of single samples, the hourly and the daily job *)

RollupSamples ==
    { Sample(Some(T0), Some(10), Some(50), Null, Null),
      Sample1800,
      Sample(Some(T0 + HOUR), Some(30), Some(20), Null, Some(3)) }

RollupPost ==
    PostMetricsStep({Body(Null, Null, Null, Null)}, {Some(<<x>>) : x \in RollupSamples}, FALSE)

RollupTick == Tick(Times)

\* The sum of F over the elements of a bag, with multiplicity
BagSum(bag, F(_)) ==
    LET RECURSIVE Sum(_)
        Sum(S) == IF S = {} THEN 0
                  ELSE LET x == CHOOSE y \in S : TRUE
                       IN  CopiesIn(x, bag) * F(x) + Sum(S \ {x})
    IN  Sum(BagToSet(bag))

\* The fine rows of machine m stamped within [from, to)
RowsWithin(m, from, to) ==
    LET hits == {r \in BagToSet(raw) :
                    r.machine_id = m /\ from <= r.timestamp /\ r.timestamp < to}
    IN  [r \in hits |-> CopiesIn(r, raw)]

\* C1: summaries are keyed by (machine, bucket start).  After the hourly
\* job every machine with a fine row in the bucket has exactly one hourly
\* row for (machine, bucket); after the daily job every machine with an
\* hourly row in the day has exactly one daily row for (machine, day): the
\* upsert of one machine's summary does not remove another machine's.
C1_SummaryPerMachineAndBucket ==
    /\ (last.op = "hourlyJob" /\ ~last.threw)
       => \A m \in DOMAIN machines :
            BagCardinality(RowsWithin(m, last.bucket, last.bucket + HOUR)) > 0
            => Cardinality({r \in hourly : r.machine_id = m /\ r.hour_start = last.bucket}) = 1
    /\ (last.op = "dailyJob" /\ ~last.threw)
       => \A m \in DOMAIN machines :
            (\E h \in hourly : /\ h.machine_id = m
                               /\ last.bucket <= h.hour_start
                               /\ h.hour_start < last.bucket + DAY)
            => Cardinality({r \in daily : r.machine_id = m /\ r.day_start = last.bucket}) = 1

\* The samples machine m posted, as posted
PostedBy(m) ==
    LET hits == {x \in BagToSet(posted) : x.machine_id = Some(m)}
    IN  [x \in hits |-> CopiesIn(x, posted)]

\* The non-null values of field f in a bag of samples
FieldValues(S, f) == {Val(x[f]) : x \in {y \in BagToSet(S) : y[f] # Null}}

FieldCount(S, f) == BagSum(S, LAMBDA x : IF x[f] = Null THEN 0 ELSE 1)

FieldTotal(S, f) == BagSum(S, LAMBDA x : IF x[f] = Null THEN 0 ELSE Val(x[f]))

\* Arithmetic mean, minimum and maximum of the non-null values; null when
\* there is none
Mean(S, f) ==
    IF FieldCount(S, f) = 0 THEN Null ELSE Some(Frac(FieldTotal(S, f), FieldCount(S, f)))

Least(S, f) ==
    IF FieldCount(S, f) = 0 THEN Null
    ELSE Some(CHOOSE v \in FieldValues(S, f) : \A w \in FieldValues(S, f) : v <= w)

Greatest(S, f) ==
    IF FieldCount(S, f) = 0 THEN Null
    ELSE Some(CHOOSE v \in FieldValues(S, f) : \A w \in FieldValues(S, f) : v >= w)

\* C9: when all samples inserted for a machine lie within one hour bucket,
\* the row the hourly job writes for that bucket has sample_count = number
\* of samples, avg = arithmetic mean of the non-null values, min/max = their
\* minimum/maximum, rate total = their sum, and null (not zero) for a field
\* with no non-null value.
C9_HourlyReducers ==
    (last.op = "hourlyJob" /\ ~last.threw)
    => \A r \in hourly :
         LET S == PostedBy(r.machine_id)
         IN  (/\ r.hour_start = last.bucket
              /\ \A x \in BagToSet(S) :
                    /\ last.bucket <= Val(x.timestamp)
                    /\ Val(x.timestamp) < last.bucket + HOUR)
             => /\ r.sample_count = BagCardinality(S)
                /\ r.cpu_load_avg = Mean(S, "cpu_load")
                /\ r.cpu_load_min = Least(S, "cpu_load")
                /\ r.cpu_load_max = Greatest(S, "cpu_load")
                /\ r.gpu_util_avg = Mean(S, "gpu_utilization")
                /\ r.gpu_util_min = Least(S, "gpu_utilization")
                /\ r.gpu_util_max = Greatest(S, "gpu_utilization")
                /\ r.ram_percent_avg = Mean(S, "ram_percent")
                /\ r.ram_percent_min = Least(S, "ram_percent")
                /\ r.ram_percent_max = Greatest(S, "ram_percent")
                /\ r.network_rx_total = FieldTotal(S, "network_rx_sec")
                /\ r.network_rx_avg = Mean(S, "network_rx_sec")

\* C10: the hourly row of bucket H counts exactly the fine rows with
\* H <= timestamp < H + 1 hour, so that across buckets no fine row is
\* counted twice.
C10_HalfOpenHourBucket ==
    /\ (last.op = "hourlyJob" /\ ~last.threw)
       => \A r \in hourly :
            r.hour_start = last.bucket
            => r.sample_count
                 = BagCardinality(RowsWithin(r.machine_id, last.bucket, last.bucket + HOUR))
    /\ \A m \in MachineIds :
         LET rows == {r \in hourly : r.machine_id = m}
         IN  BagSum(SetToBag(rows), LAMBDA r : r.sample_count)
               <= BagCardinality(RowsWithin(m, 0, T0 + 2 * DAY))

\* C11: rollup idempotence.  When the hourly job runs a second time for the
\* same bucket with the fine data unchanged, every machine the job computes a
\* summary for has exactly one hourly row for (machine, bucket) afterwards,
\* the row it had after the first run; likewise the daily job over unchanged
\* hourly rows.
C11_RecomputeIdempotent ==
    [][/\ (/\ last.op = "hourlyJob" /\ ~last.threw
            /\ last'.op = "hourlyJob" /\ ~last'.threw
            /\ last'.bucket = last.bucket)
           => \A m \in DOMAIN machines :
                Len(GetRawMetrics(raw, m, last.bucket, last.bucket + HOUR)) > 0
                => LET before == {r \in hourly : r.machine_id = m /\ r.hour_start = last.bucket}
                       after == {r \in hourly' : r.machine_id = m /\ r.hour_start = last.bucket}
                   IN  Cardinality(after) = 1 /\ after = before
       /\ (/\ last.op = "dailyJob" /\ ~last.threw
            /\ last'.op = "dailyJob" /\ ~last'.threw
            /\ last'.bucket = last.bucket)
           => \A m \in DOMAIN machines :
                Len(GetHourlyMetrics(hourly, m, last.bucket, last.bucket + DAY)) > 0
                => LET before == {r \in daily : r.machine_id = m /\ r.day_start = last.bucket}
                       after == {r \in daily' : r.machine_id = m /\ r.day_start = last.bucket}
                   IN  Cardinality(after) = 1 /\ after = before]_vars

\* C21: per-machine failure isolation.  In a run of the hourly (daily) job
\* in which the store throws while one machine is aggregated, every other
\* known machine with source rows in the bucket is still aggregated in that
\* run: it has its summary row for the bucket afterwards.
C21_FailureIsolatedPerMachine ==
    /\ (last.op = "hourlyJob" /\ last.threw)
       => \A m \in DOMAIN machines \ {last.mid} :
            BagCardinality(RowsWithin(m, last.bucket, last.bucket + HOUR)) > 0
            => \E r \in hourly : r.machine_id = m /\ r.hour_start = last.bucket
    /\ (last.op = "dailyJob" /\ last.threw)
       => \A m \in DOMAIN machines \ {last.mid} :
            (\E h \in hourly : /\ h.machine_id = m
                               /\ last.bucket <= h.hour_start
                               /\ h.hour_start < last.bucket + DAY)
            => \E r \in daily : r.machine_id = m /\ r.day_start = last.bucket

NextRollup == RollupPost \/ HourlyJob \/ DailyJob \/ RollupTick

SpecRollup == Init /\ [][NextRollup]_vars

----------------------------------------------------------------------------
(* Backfill: aggregateRange next to the scheduled hourly and daily job *)

\* One sample on the hour boundary at midnight and one at 00:30
BackfillSamples ==
    { Sample(Some(T0), Some(10), Some(50), Null, Null), Sample1800 }

BackfillPost ==
    PostMetricsStep({Body(Null, Null, Null, Null)}, {Some(<<x>>) : x \in BackfillSamples}, FALSE)

\* The clock moves from start-up at midnight to 01:05.
BackfillTick == Tick({T0 + HOUR + 300})

BackfillHourlyJob == \E order \in GetMachinesOrders(machines) : RunHourlyAggregation(order, 0)

BackfillDailyJob == \E order \in GetMachinesOrders(machines) : RunDailyAggregation(order, 0)

\* Ranges handed to aggregateRange: from 23:10 of the day before to 02:00
\* (three hour buckets, the day before as day bucket) and from 00:10 over a
\* day (twenty-four hour buckets, one day bucket).
BackfillRanges ==
    { <<T0 - HOUR + 600, T0 + 2 * HOUR>>,
      <<T0 + 600, T0 + DAY + 600>> }

BackfillRange ==
    \E m \in MachineIds, rg \in BackfillRanges :
        \/ AggregateRange(m, rg[1], rg[2], Null)
        \/ AggregateRange(m, rg[1], rg[2], Some("daily"))
        \/ m = "m1" /\ rg[1] < T0 /\ AggregateRange(m, rg[1], rg[2], Some("weekly"))

HourStarts == {k * HOUR : k \in 0..72}

DayStarts == {k * DAY : k \in 0..3}

\* The hour (day) buckets aggregateRange was asked to recompute
AskedHours == {b \in HourStarts : (last.from \div HOUR) * HOUR <= b
                                   /\ b < (last.to \div HOUR) * HOUR}

AskedDays == {b \in DayStarts : (last.from \div DAY) * DAY <= b
                                 /\ b < (last.to \div DAY) * DAY}

\* C22: manual re-aggregation is equivalent to the scheduled path.  The
\* summaries aggregateRange returns and writes for a machine are, bucket by
\* bucket and field by field, the rows the loop of the scheduled hourly
\* (daily) job writes for that machine and bucket over the same fine data.
C22_ManualEqualsScheduled ==
    /\ (last.op = "aggregateRange" /\ last.granularity = "hourly")
       => /\ DataRows = UNION {HourlyLoop({}, <<last.mid>>, 1, 0, b).table : b \in AskedHours}
          /\ DataRows \subseteq hourly
    /\ (last.op = "aggregateRange" /\ last.granularity = "daily")
       => /\ DataRows = UNION {DailyLoop({}, <<last.mid>>, 1, 0, b).table : b \in AskedDays}
          /\ DataRows \subseteq daily

\* C22 witness: aggregateRange, asked for a range that starts at 23:10,
\* recomputed more than one hour bucket of a machine.
C22_Witness ==
    /\ last.op = "aggregateRange"
    /\ last.granularity = "hourly"
    /\ last.from % HOUR # 0
    /\ Len(last.data) >= 2

\* C23: a summary row exists only where source data existed.  Whenever an
\* hourly row for (machine m, bucket H) is written, a fine row of m stamped
\* within [H, H + 1 hour) exists at that moment; whenever a daily row for
\* (m, D) is written, an hourly row of m with D <= hour_start < D + 24 hours
\* exists.
C23_SummaryOnlyWithSource ==
    [][/\ \A r \in hourly' \ hourly :
             BagCardinality(RowsWithin(r.machine_id, r.hour_start, r.hour_start + HOUR)) > 0
       /\ \A r \in daily' \ daily :
             \E h \in hourly : /\ h.machine_id = r.machine_id
                               /\ r.day_start <= h.hour_start
                               /\ h.hour_start < r.day_start + DAY]_vars

\* C24: every hourly row written by the scheduled job or by aggregateRange
\* starts on an exact hour boundary and every daily row on an exact day
\* boundary; the scheduled job firing at time t writes only the bucket that
\* has just completed, floor(t) minus one period.
C24_BucketStartsAligned ==
    [][/\ \A r \in hourly' \ hourly :
             /\ r.hour_start % HOUR = 0
             /\ last'.op = "hourlyJob" => r.hour_start = (now \div HOUR) * HOUR - HOUR
       /\ \A r \in daily' \ daily :
             /\ r.day_start % DAY = 0
             /\ last'.op = "dailyJob" => r.day_start = (now \div DAY) * DAY - DAY]_vars

\* C24 witness: the hourly job fired at five past the hour and the bucket
\* of the hour before holds its row, next to a daily row.
C24_Witness ==
    /\ last.op = "hourlyJob"
    /\ now % HOUR = 300
    /\ \E r \in hourly : r.hour_start = last.bucket /\ r.hour_start = now - 300 - HOUR
    /\ daily # {}

\* C26: the daily row of day D is folded from exactly the hourly rows of
\* the machine with D <= hour_start < D + 24 hours: its sample_count is the
\* sum of theirs, the hourly row of the next day's midnight not included.
C26_DayBucketHalfOpen ==
    [][last'.op \in {"dailyJob", "aggregateRange"}
       => \A r \in daily' \ daily :
            LET ofDay == {h \in hourly : /\ h.machine_id = r.machine_id
                                         /\ r.day_start <= h.hour_start
                                         /\ h.hour_start < r.day_start + DAY}
            IN  /\ Cardinality(ofDay) <= 24
                /\ r.sample_count = BagSum(SetToBag(ofDay), LAMBDA h : h.sample_count)]_vars

NextBackfill ==
    BackfillPost \/ BackfillTick \/ BackfillHourlyJob \/ BackfillDailyJob \/ BackfillRange

SpecBackfill == Init /\ [][NextBackfill]_vars

----------------------------------------------------------------------------
(* Repair of a range that ends inside a bucket that holds data *)

RepairPost ==
    PostMetricsStep({Body(Null, Null, Null, Null)}, {Some(<<x>>) : x \in BackfillSamples}, FALSE)

RepairTick == Tick({T0 + HOUR + 300})

\* Ranges handed to aggregateRange: 00:10 to 00:40 (one hour bucket) and
\* 23:10 of the day before to 00:40 (two hour buckets, two day buckets)
RepairRanges == {<<T0 + 600, T0 + 2400>>, <<T0 - HOUR + 600, T0 + 2400>>}

RepairRange ==
    \E m \in MachineIds, rg \in RepairRanges, g \in {Null, Some("daily")} :
        AggregateRange(m, rg[1], rg[2], g)

\* The hour buckets that overlap the range aggregateRange was asked for
OverlappedHours == {b \in HourStarts : (last.from \div HOUR) * HOUR <= b
                                        /\ b <= (last.to \div HOUR) * HOUR}

\* C39: aggregateRange recomputes every bucket that overlaps [start, end],
\* the bucket that contains end and the single bucket of a range within one
\* bucket included: after an hourly aggregateRange every overlapped hour in
\* which the machine has fine rows has its hourly row, and that row is
\* among the returned summaries.
C39_RangeCoversEveryBucket ==
    (last.op = "aggregateRange" /\ last.granularity = "hourly")
    => \A b \in OverlappedHours :
          BagCardinality(RowsWithin(last.mid, b, b + HOUR)) > 0
          => /\ \E r \in hourly : r.machine_id = last.mid /\ r.hour_start = b
             /\ \E i \in 1..Len(last.data) : last.data[i].hour_start = b

NextRepair == RepairPost \/ RepairTick \/ RepairRange

SpecRepair == Init /\ [][NextRepair]_vars

----------------------------------------------------------------------------
(* The daily fold over hours that hold unequal numbers of samples *)

\* Two samples in the hour from 01:00 and one in the hour from 02:00
DaySamples ==
    { Sample(Some(T0 + HOUR + 600), Some(10), Some(50), Null, Some(4)),
      Sample(Some(T0 + HOUR + 1800), Some(30), Some(70), Some(40), Some(2)),
      Sample(Some(T0 + 2 * HOUR + 600), Some(50), Some(20), Null, Some(3)) }

\* The local machine posts each sample once.
DayPost ==
    \E x \in DaySamples :
        /\ ~\E r \in BagToSet(raw) : r.timestamp = Val(x.timestamp)
        /\ PostMetrics("localhost", Body(Null, Null, Null, Null), Some("10.9.9.9"),
                       Some(<<x>>), 0)

\* Clock readings: 02:05, 03:05 and 00:10 of the next day
DayTick == Tick({T0 + 2 * HOUR + 300, T0 + 3 * HOUR + 300, T0 + DAY + 600})

DayHourlyJob == \E order \in GetMachinesOrders(machines) : RunHourlyAggregation(order, 0)

DayDailyJob == \E order \in GetMachinesOrders(machines) : RunDailyAggregation(order, 0)

\* The sum over the hourly rows S of average f times sample_count, a fraction
RECURSIVE WeightedSum(_, _)
WeightedSum(S, f) ==
    IF S = {} THEN <<0, 1>>
    ELSE LET h == CHOOSE x \in S : TRUE
             a == Val(h[f])
         IN  FracAdd(Frac(a[1] * h.sample_count, a[2]), WeightedSum(S \ {h}, f))

\* The mean of average f over the hourly rows S, each hour weighted by its
\* sample count; null when no hour has the average
WeightedMean(S, f) ==
    LET have == {h \in S : h[f] # Null}
        weight == BagSum(SetToBag(have), LAMBDA h : h.sample_count)
        total == WeightedSum(have, f)
    IN  IF have = {} THEN Null ELSE Some(Frac(total[1], total[2] * weight))

\* The least (greatest) non-null value of field f over the rows S
LeastOf(S, f) ==
    LET vals == {Val(h[f]) : h \in {x \in S : x[f] # Null}}
    IN  IF vals = {} THEN Null ELSE Some(CHOOSE v \in vals : \A w \in vals : v <= w)

GreatestOf(S, f) ==
    LET vals == {Val(h[f]) : h \in {x \in S : x[f] # Null}}
    IN  IF vals = {} THEN Null ELSE Some(CHOOSE v \in vals : \A w \in vals : v >= w)

\* C27: the daily fold is weighted by each hour's sample count.  The daily
\* row's averages are the sample-count-weighted means of the hourly averages
\* of the day, its minima and maxima the least hourly minimum and greatest
\* hourly maximum, its total and sample_count the sums of the hourly values.
C27_DailyFoldWeighted ==
    [][last'.op = "dailyJob"
       => \A r \in daily' \ daily :
            LET ofDay == {h \in hourly : /\ h.machine_id = r.machine_id
                                         /\ r.day_start <= h.hour_start
                                         /\ h.hour_start < r.day_start + DAY}
            IN  /\ r.cpu_load_avg = WeightedMean(ofDay, "cpu_load_avg")
                /\ r.ram_percent_avg = WeightedMean(ofDay, "ram_percent_avg")
                /\ r.cpu_load_min = LeastOf(ofDay, "cpu_load_min")
                /\ r.cpu_load_max = GreatestOf(ofDay, "cpu_load_max")
                /\ r.ram_percent_min = LeastOf(ofDay, "ram_percent_min")
                /\ r.ram_percent_max = GreatestOf(ofDay, "ram_percent_max")
                /\ r.gpu_util_min = LeastOf(ofDay, "gpu_util_min")
                /\ r.gpu_util_max = GreatestOf(ofDay, "gpu_util_max")
                /\ r.network_rx_total = BagSum(SetToBag(ofDay), LAMBDA h : h.network_rx_total)
                /\ r.sample_count = BagSum(SetToBag(ofDay), LAMBDA h : h.sample_count)]_vars

NextDay == DayPost \/ DayTick \/ DayHourlyJob \/ DayDailyJob

SpecDay == Init /\ [][NextDay]_vars

----------------------------------------------------------------------------
(* Range queries over the three tiers *)

QuerySamples ==
    { Sample1800,
      Sample(Some(T0 + HOUR + 1800), Some(30), Some(20), Null, Some(3)) }

QueryPost ==
    PostMetricsStep({Body(Null, Null, Null, Null)}, {Some(<<x>>) : x \in QuerySamples}, FALSE)

\* Clock readings of the query runs: 01:05, 02:05 and 00:10 of the next day
QueryTick == Tick({T0 + HOUR + 300, T0 + 2 * HOUR + 300, T0 + DAY + 600})

QueryHourlyJob == \E order \in GetMachinesOrders(machines) : RunHourlyAggregation(order, 0)

QueryDailyJob == \E order \in GetMachinesOrders(machines) : RunDailyAggregation(order, 0)

\* Every range starts at 00:30, off the hour and off the day.
QueryStart == T0 + 1800

\* Spans: 2 hours, 24 hours to the second and one second more, 30 days,
\* 90 days to the second and one second more, 200 days
QuerySpans ==
    {2 * HOUR, 24 * HOUR, 24 * HOUR + 1, 30 * DAY, 90 * DAY, 90 * DAY + 1, 200 * DAY}

\* Spans of the queries that name their resolution: short, long, very long
ExplicitSpans == {2 * HOUR, 30 * DAY, 200 * DAY}

QueryRange ==
    \/ \E m \in MachineIds, span \in QuerySpans :
          GetRange(Some(m), Some(Digits(QueryStart)), Some(Digits(QueryStart + span)), Null)
    \/ \E m \in MachineIds, span \in ExplicitSpans,
           g \in {"raw", "hourly", "daily", "weekly"} :
          GetRange(Some(m), Some(Digits(QueryStart)), Some(Digits(QueryStart + span)), Some(g))
    \/ GetRange(Null, Some(Digits(QueryStart)), Some(Digits(QueryStart)), Some("auto"))
    \/ GetRange(Null, Null, Some(Digits(QueryStart)), Null)

\* The rows of machine m in a tier whose time (field f) lies in [from, to]
TierRows(table, m, f, from, to) ==
    {r \in table : r.machine_id = m /\ from <= r[f] /\ r[f] <= to}

\* The tier of a resolution and the field that holds a row's time
TierOf(g) ==
    CASE g = "raw" -> BagToSet(raw) [] g = "hourly" -> hourly [] g = "daily" -> daily

TimeFieldOf(g) ==
    CASE g = "raw" -> "timestamp" [] g = "hourly" -> "hour_start" [] g = "daily" -> "day_start"

\* C12: a query with resolution auto reads the fine tier when the span is
\* at most 24 hours, the hourly tier when it is more than 24 hours and at
\* most 90 days, the daily tier otherwise, and reports the resolution it
\* used.
C12_AutoResolution ==
    (last.op = "range" /\ last.granularity = "auto" /\ last.from < last.to)
    => LET span == last.to - last.from
           tier == IF span <= 24 * HOUR THEN "raw"
                   ELSE IF span <= 90 * DAY THEN "hourly"
                   ELSE "daily"
       IN  /\ last.status = 200
           /\ last.used = tier
           /\ DataRows \subseteq {r \in TierOf(tier) : r.machine_id = last.mid}
           /\ TierRows(TierOf(tier), last.mid, TimeFieldOf(tier), last.from, last.to)
                 \subseteq DataRows

\* C12 witness: an auto query over exactly 24 hours returned fine rows.
C12_Witness ==
    /\ last.op = "range"
    /\ last.granularity = "auto"
    /\ last.to - last.from = 24 * HOUR
    /\ last.used = "raw"
    /\ last.data # <<>>

\* C13: a query that names raw, hourly or daily reads that tier and reports
\* that resolution whatever the span; a query that names anything else but
\* auto fails and returns no rows.
C13_ExplicitResolutionHonoured ==
    (last.op = "range" /\ last.granularity # "auto" /\ last.from < last.to)
    => IF last.granularity \in {"raw", "hourly", "daily"}
       THEN /\ last.status = 200
            /\ last.used = last.granularity
            /\ DataRows \subseteq {r \in TierOf(last.granularity) : r.machine_id = last.mid}
            /\ TierRows(TierOf(last.granularity), last.mid,
                        TimeFieldOf(last.granularity), last.from, last.to)
                  \subseteq DataRows
       ELSE /\ last.status # 200
            /\ last.threw
            /\ last.data = <<>>

\* C13 witness: a raw query over 200 days returned fine rows.
C13_Witness ==
    /\ last.op = "range"
    /\ last.granularity = "raw"
    /\ last.to - last.from = 200 * DAY
    /\ last.used = "raw"
    /\ last.data # <<>>

\* C14: an hourly (daily) query returns exactly the summaries of the machine
\* whose bucket start b has floor(start) <= b <= floor(end), floors taken to
\* the hour (day), in ascending order of b, and every b is a whole hour
\* (day).
C14_RangeAlignedToBuckets ==
    (last.op = "range" /\ last.status = 200 /\ last.used \in {"hourly", "daily"})
    => LET unit == IF last.used = "hourly" THEN HOUR ELSE DAY
           f == TimeFieldOf(last.used)
           lo == (last.from \div unit) * unit
           hi == (last.to \div unit) * unit
       IN  /\ DataRows = TierRows(TierOf(last.used), last.mid, f, lo, hi)
           /\ \A i, j \in 1..Len(last.data) : i < j => last.data[i][f] < last.data[j][f]
           /\ \A i \in 1..Len(last.data) : last.data[i][f] % unit = 0

\* C14 witness: an hourly query returned the bucket that begins before the
\* requested start.
C14_Witness ==
    /\ last.op = "range"
    /\ last.used = "hourly"
    /\ last.from % HOUR # 0
    /\ last.data # <<>>
    /\ last.data[1].hour_start < last.from

NextQuery == QueryPost \/ QueryHourlyJob \/ QueryDailyJob \/ QueryTick \/ QueryRange

SpecQuery == Init /\ [][NextQuery]_vars

----------------------------------------------------------------------------
(* The query boundary: range query, CSV export and summary with well-formed *)
(* and malformed time ranges                                                *)

BoundaryPost ==
    PostMetricsStep({Body(Null, Null, Null, Null)}, {Some(<<x>>) : x \in QuerySamples}, FALSE)

BoundaryTick == Tick({T0 + HOUR + 300})

BoundaryHourlyJob == \E order \in GetMachinesOrders(machines) : RunHourlyAggregation(order, 0)

\* start and end as the client sends them: absent, no timestamp, 00:10, 01:10
TimeTexts == {Null, Some(BadText), Some(Digits(T0 + 600)), Some(Digits(T0 + HOUR + 600))}

BoundaryRange ==
    \E start \in TimeTexts, end \in TimeTexts, g \in {Null, Some("hourly")} :
        GetRange(Null, start, end, g)

BoundaryExport ==
    \E start \in TimeTexts, end \in TimeTexts, g \in {Null, Some("hourly")} :
        ExportCsv(Null, start, end, g)

BoundarySummary ==
    \E start \in TimeTexts, end \in TimeTexts, period \in {Null, Some("custom"), Some("1y")} :
        GetSummary(Null, period, start, end)

\* The time range of the last request is invalid: start or end is missing
\* or no timestamp, or start is not before end.
InvalidRange ==
    \/ last.start = Null
    \/ last.end = Null
    \/ ParseTimestamp(Val(last.start)) = Null
    \/ ParseTimestamp(Val(last.end)) = Null
    \/ Val(ParseTimestamp(Val(last.start))) >= Val(ParseTimestamp(Val(last.end)))

\* C28: a range query, a CSV export or a custom-period summary with an
\* invalid time range is answered with an error and reads nothing from the
\* store.
C28_InvalidRangeRejected ==
    (/\ \/ last.op \in {"range", "exportCsv"}
        \/ last.op = "summary" /\ last.period = "custom"
     /\ InvalidRange)
    => last.status \in 400..599 /\ last.reads = 0

NextBoundary ==
    \/ BoundaryPost
    \/ BoundaryTick
    \/ BoundaryHourlyJob
    \/ BoundaryRange
    \/ BoundaryExport
    \/ BoundarySummary

SpecBoundary == Init /\ [][NextBoundary]_vars

----------------------------------------------------------------------------
(* Retention: the cleanup job, scoped cleanups and the manual trigger *)

\* A sample stamped at start-up and one stamped an hour before the end of
\* the third day
RetentionSamples ==
    { Sample(Some(T0), Some(10), Some(50), Null, Some(1)),
      Sample(Some(T0 + 3 * DAY - HOUR), Some(30), Some(20), Null, Some(3)) }

\* A behaviour posts at most MaxRaw samples, deleted ones included.
RetentionPost ==
    /\ BagCardinality(posted) < MaxRaw
    /\ PostMetricsStep({Body(Null, Null, Null, Null)},
                       {Some(<<x>>) : x \in RetentionSamples}, FALSE)

\* Clock readings of the retention runs: 01:05, one day, three days and a
\* hundred days after start-up
RetentionTick == Tick({T0 + HOUR + 300, T0 + DAY, T0 + 3 * DAY, T0 + 100 * DAY})

RetentionHourlyJob == \E order \in GetMachinesOrders(machines) : RunHourlyAggregation(order, 0)

RetentionDailyJob == \E order \in GetMachinesOrders(machines) : RunDailyAggregation(order, 0)

\* The windows an operator sets: 1 day for the raw tier, 1 day or 0 days
\* (never delete) for the daily tier; the hourly tier keeps its 90 days.
RetentionSet ==
    \/ SetMetadataCall("retention_days_raw", <<1>>)
    \/ \E value \in {<<0>>, <<1>>} : SetMetadataCall("retention_days_daily", value)

RetentionJob == \E order \in GetMachinesOrders(machines) : RunCleanup(order)

RetentionCall == \E m \in MachineIds : CleanupCall(m)

RetentionManual ==
    \E d \in {Null, Some(0), Some(1)},
       g \in {Null, Some("raw"), Some("hourly"), Some("daily"), Some("weekly")} :
        ManualCleanup(d, g)

\* The rows of a bag that satisfy Keep, with their multiplicities
BagFilter(bag, Keep(_)) ==
    LET kept == {r \in BagToSet(bag) : Keep(r)}
    IN  [r \in kept |-> CopiesIn(r, bag)]

\* The windows in force, in days
Window == RetentionDays(db_metadata)

\* C15: after the retention job ran at time now, a tier whose window is
\* w > 0 days holds exactly the rows it held before that are not older than
\* now - w days: none older is left, for any machine, and none of the others
\* is gone.
C15_RetentionJobEnforcesWindow ==
    [][last'.op = "cleanupJob"
       => /\ Window.raw > 0
               => raw' = BagFilter(raw, LAMBDA r : r.timestamp >= now - Window.raw * DAY)
          /\ Window.hourly > 0
               => hourly' = {r \in hourly : r.hour_start >= now - Window.hourly * DAY}
          /\ Window.daily > 0
               => daily' = {r \in daily : r.day_start >= now - Window.daily * DAY}]_vars

\* C15 witness: with a raw window of 1 day the job removed the sample dated
\* 3 days ago and kept the sample dated 1 hour ago.
C15_Witness ==
    /\ last.op = "cleanupJob"
    /\ Window.raw = 1
    /\ last.deleted > 0
    /\ \E x \in BagToSet(posted) : Val(x.timestamp) = now - 3 * DAY
    /\ \A r \in BagToSet(raw) : r.timestamp = now - HOUR
    /\ raw # EmptyBag

\* C16: a cleanup leaves a tier whose window is 0 as it was, whatever the
\* other windows are, and the rows it removes from a tier are older than
\* that tier's own window.
C16_ZeroWindowNeverDeletes ==
    [][last'.op \in {"cleanupJob", "cleanup"}
       => /\ Window.raw = 0 => raw' = raw
          /\ Window.hourly = 0 => hourly' = hourly
          /\ Window.daily = 0 => daily' = daily
          /\ \A r \in BagToSet(raw) :
                CopiesIn(r, raw') < CopiesIn(r, raw)
                => Window.raw > 0 /\ r.timestamp < now - Window.raw * DAY
          /\ \A r \in hourly \ hourly' :
                Window.hourly > 0 /\ r.hour_start < now - Window.hourly * DAY
          /\ \A r \in daily \ daily' :
                Window.daily > 0 /\ r.day_start < now - Window.daily * DAY]_vars

\* C16 witness: the job deleted rows under a raw window > 0 while the daily
\* window was 0 and the daily tier held a row older than the raw window.
C16_Witness ==
    /\ last.op = "cleanupJob"
    /\ Window.daily = 0
    /\ Window.raw > 0
    /\ last.deleted > 0
    /\ \E r \in daily : r.day_start < now - Window.raw * DAY

\* The machines a cleanup was aimed at
Targeted == IF last'.scope = Null THEN MachineIds ELSE {Val(last'.scope)}

\* C17: a cleanup returns the number of rows it removed.  In a tier with a
\* window, a cutoff not later than any row of the targeted machines removes
\* nothing, a cutoff later than all of them removes them all; rows of the
\* machines it was not aimed at stay.
C17_DeleteOlderThanCounts ==
    [][last'.op \in {"cleanupJob", "cleanup"}
       => /\ last'.deleted = (BagCardinality(raw) - BagCardinality(raw'))
                             + (Cardinality(hourly) - Cardinality(hourly'))
                             + (Cardinality(daily) - Cardinality(daily'))
          /\ BagFilter(raw', LAMBDA r : r.machine_id \notin Targeted)
               = BagFilter(raw, LAMBDA r : r.machine_id \notin Targeted)
          /\ {r \in hourly' : r.machine_id \notin Targeted}
               = {r \in hourly : r.machine_id \notin Targeted}
          /\ {r \in daily' : r.machine_id \notin Targeted}
               = {r \in daily : r.machine_id \notin Targeted}
          /\ Window.raw > 0
               => LET aimed == {r \in BagToSet(raw) : r.machine_id \in Targeted}
                      cutoff == now - Window.raw * DAY
                  IN  /\ (\A r \in aimed : cutoff <= r.timestamp) => raw' = raw
                      /\ (\A r \in aimed : cutoff > r.timestamp)
                           => \A r \in BagToSet(raw') : r.machine_id \notin Targeted
          /\ Window.hourly > 0
               => LET aimed == {r \in hourly : r.machine_id \in Targeted}
                      cutoff == now - Window.hourly * DAY
                  IN  /\ (\A r \in aimed : cutoff <= r.hour_start) => hourly' = hourly
                      /\ (\A r \in aimed : cutoff > r.hour_start)
                           => \A r \in hourly' : r.machine_id \notin Targeted
          /\ Window.daily > 0
               => LET aimed == {r \in daily : r.machine_id \in Targeted}
                      cutoff == now - Window.daily * DAY
                  IN  /\ (\A r \in aimed : cutoff <= r.day_start) => daily' = daily
                      /\ (\A r \in aimed : cutoff > r.day_start)
                           => \A r \in daily' : r.machine_id \notin Targeted]_vars

\* C17 witness: a cleanup scoped to one machine removed its rows and left
\* an equally old row of the other machine.
C17_Witness ==
    /\ last.op = "cleanup"
    /\ last.deleted > 0
    /\ Window.raw > 0
    /\ \E r \in BagToSet(raw) :
          /\ Some(r.machine_id) # last.scope
          /\ r.timestamp < now - Window.raw * DAY

\* C18: the manual cleanup trigger with an age threshold of d > 0 days and
\* a resolution g, on a store that holds rows of g older than now - d days,
\* deletes exactly those rows, answers with their number and leaves the
\* other resolutions unchanged.
C18_ManualCleanupDeletes ==
    [][(/\ last'.op = "manualCleanup"
        /\ last'.days > 0
        /\ last'.granularity \in {"raw", "hourly", "daily"}
        /\ LET cutoff == now - last'.days * DAY
           IN  CASE last'.granularity = "raw" ->
                      \E r \in BagToSet(raw) : r.timestamp < cutoff
                 [] last'.granularity = "hourly" ->
                      \E r \in hourly : r.hour_start < cutoff
                 [] last'.granularity = "daily" ->
                      \E r \in daily : r.day_start < cutoff)
       => LET cutoff == now - last'.days * DAY
              g == last'.granularity
              rawKept == BagFilter(raw, LAMBDA r : r.timestamp >= cutoff)
              hourlyKept == {r \in hourly : r.hour_start >= cutoff}
              dailyKept == {r \in daily : r.day_start >= cutoff}
          IN  /\ last'.status = 200
              /\ raw' = IF g = "raw" THEN rawKept ELSE raw
              /\ hourly' = IF g = "hourly" THEN hourlyKept ELSE hourly
              /\ daily' = IF g = "daily" THEN dailyKept ELSE daily
              /\ last'.deleted = (BagCardinality(raw) - BagCardinality(raw'))
                                 + (Cardinality(hourly) - Cardinality(hourly'))
                                 + (Cardinality(daily) - Cardinality(daily'))]_vars

NextRetention ==
    \/ RetentionPost \/ RetentionTick \/ RetentionHourlyJob \/ RetentionDailyJob
    \/ RetentionSet \/ RetentionJob

SpecRetention == Init /\ [][NextRetention]_vars

\* Cleanups under the windows of the migration, for one machine and for all
NextScoped ==
    \/ RetentionPost \/ RetentionTick \/ RetentionHourlyJob \/ RetentionDailyJob
    \/ RetentionJob \/ RetentionCall

SpecScoped == Init /\ [][NextScoped]_vars

NextManual ==
    \/ RetentionPost \/ RetentionTick \/ RetentionHourlyJob \/ RetentionDailyJob
    \/ RetentionManual

SpecManual == Init /\ [][NextManual]_vars

----------------------------------------------------------------------------
(* The list of active machines under registration, ingestion, aggregation  *)
(* and retention                                                           *)

ActiveRegister ==
    \E mid \in MachineIds : Register(mid, Body(Some("host-a"), Null, Null, Null), FALSE)

\* Clock readings of these runs: 01:05 and a hundred days after start-up
ActiveTick == Tick({T0 + HOUR + 300, T0 + 100 * DAY})

\* C20: getMachines returns exactly the machines whose active flag is set,
\* each once, most recently contacted first; no operation clears the flag or
\* removes a machine, so every machine ever upserted is in the list.
C20_ListActiveComplete ==
    [][/\ GetMachinesOrders(machines') # {}
       /\ \A o \in GetMachinesOrders(machines') :
             /\ {o[i] : i \in 1..Len(o)} = {m \in DOMAIN machines' : machines'[m].is_active = 1}
             /\ Len(o) = Cardinality({o[i] : i \in 1..Len(o)})
             /\ \A i, j \in 1..Len(o) :
                   i < j => machines'[o[i]].last_seen >= machines'[o[j]].last_seen
             /\ DOMAIN machines \subseteq {o[i] : i \in 1..Len(o)}
             /\ last'.op \in {"register", "postMetrics"} /\ last'.status = 200
                  => last'.mid \in {o[i] : i \in 1..Len(o)}]_vars

\* C20 witness: a second machine registered after the first one's last
\* contact; it heads the list.
C20_Witness ==
    /\ last.op = "register"
    /\ \E o \in GetMachinesOrders(machines) :
          /\ Len(o) = 2
          /\ o[1] = last.mid
          /\ machines[o[1]].last_seen > machines[o[2]].last_seen

NextActive ==
    \/ ActiveRegister \/ RetentionPost \/ ActiveTick \/ RetentionHourlyJob
    \/ RetentionJob

SpecActive == Init /\ [][NextActive]_vars

----------------------------------------------------------------------------
(* The writer: enqueues, timer flushes, start and stop *)

\* The samples index.js enqueues: the local machine, two seconds apart
WriterSamples ==
    { [Sample(Some(T0 + 2), Some(10), Some(50), Null, Some(0)) EXCEPT !.machine_id = Some("localhost")],
      [Sample(Some(T0 + 4), Some(20), Some(50), Some(5), Some(7)) EXCEPT !.machine_id = Some("localhost")] }

WriterEnqueue ==
    \E metric \in WriterSamples :
        /\ Len(arrivals) < maxQueueSize + MaxOverflow
        /\ EnqueueCall(metric)

WriterFlush ==
    \E failAt \in 0..Len(queue) :
        /\ BagCardinality(raw) + Len(queue) <= MaxRaw + maxQueueSize
        /\ TimerFlush(failAt)

WriterStop ==
    \E failAt \in 0..Len(queue) :
        /\ BagCardinality(raw) + Len(queue) <= MaxRaw + maxQueueSize
        /\ Stop(failAt)

\* The last n elements of a sequence
LastN(q, n) == IF Len(q) <= n THEN q ELSE SubSeq(q, Len(q) - n + 1, Len(q))

\* C5: drop-oldest eviction.  After any run of enqueues since the last flush
\* the queue is the last min(k, N) arrivals in arrival order, every other
\* arrival was reported as dropped, oldest first, one per enqueue on a full
\* queue, and a flush submits exactly the queued samples in that order.
C5_DropOldestEviction ==
    [][/\ queue' = LastN(arrivals', maxQueueSize)
       /\ evictLog' \o queue' = arrivals'
       /\ last'.op = "enqueue"
            => Len(evictLog') = Len(evictLog) + (IF Len(queue) = maxQueueSize THEN 1 ELSE 0)
       /\ last'.op \in {"flush", "stop"}
            => last'.batch = LastN(arrivals, maxQueueSize)]_vars

\* C5 witness: N + 2 samples were enqueued without a flush in between, the
\* two oldest were dropped.
C5_Witness ==
    /\ last.op = "enqueue"
    /\ Len(arrivals) = maxQueueSize + 2
    /\ Len(evictLog) = 2
    /\ Len(queue) = maxQueueSize

\* C6: a flush whose store transaction fails leaves the queue as it was
\* before the flush: the batch is back in front, in its order, none lost.
C6_FailedFlushRequeues ==
    [][(last'.op \in {"flush", "stop"} /\ last'.threw)
       => /\ queue' = queue
          /\ last'.batch = queue
          /\ raw' = raw]_vars

\* C6 witness: the flush of a full queue failed.
C6_Witness ==
    /\ last.op = "flush"
    /\ last.threw
    /\ last.n = maxQueueSize
    /\ Len(queue) = maxQueueSize

\* C7 as claimed: the caller of a flush whose store transaction failed sees
\* it, by an error raised or by a return value other than a successful
\* flush's.
C7_FailureReportedToCaller ==
    (last.op = "flush" /\ last.threw) => (last.raised \/ last.ret # "undefined")

\* C7 as amended: flush never raises and returns undefined whether or not
\* the store transaction failed; a failure is written to console.error and
\* shows to the caller only as a queue that is not empty after the flush.
C7_FailureLoggedNotRaised ==
    last.op \in {"flush", "stop"}
    => /\ ~last.raised
       /\ last.ret = "undefined"
       /\ last.threw <=> last.errors > 0
       /\ last.threw <=> queue # <<>>

\* C7 witness: a timer flush whose store transaction failed.
C7_Witness ==
    /\ last.op = "flush"
    /\ last.threw
    /\ last.errors = 1

\* C8 as claimed: there is a threshold T such that an enqueue that pushes
\* the queue length above T has a batch handed to the store (a flush ran).
C8_EagerFlushAboveThreshold ==
    \E T \in 0..maxQueueSize :
        (last.op = "enqueue" /\ last.n > T) => last.batch # <<>>

\* C8 as amended: enqueue never runs a flush, whatever the queue length; it
\* hands nothing to the store and leaves the store alone.  The store is
\* written only by the timer's flush and by stop.
C8_EnqueueNeverFlushes ==
    [][/\ last'.op = "enqueue"
            => /\ last'.batch = <<>>
               /\ raw' = raw
               /\ machines' = machines
               /\ Len(queue') = IF last'.n > maxQueueSize THEN maxQueueSize ELSE last'.n
       /\ raw' # raw => last'.op \in {"flush", "stop"}]_vars

\* C8 witness: an enqueue pushed the queue above its maximum size.
C8_Witness ==
    /\ last.op = "enqueue"
    /\ last.n > maxQueueSize
    /\ Len(queue) = maxQueueSize

\* C31, queue bound: after every enqueue, timer flush (failed or not),
\* start and stop the queue holds at most maxQueueSize samples.
C31_QueueBounded == Len(queue) <= maxQueueSize

\* C31 witness: stop flushed a full queue, the store failed and the whole
\* batch came back into the queue.
C31_Witness ==
    /\ last.op = "stop"
    /\ last.threw
    /\ Len(last.batch) = maxQueueSize
    /\ Len(queue) = maxQueueSize

WriterTimes == {T0 + 2, T0 + 4}

\* C32, no duplication and no silent loss on the write path: every step
\* conserves the samples.  What was queued plus the sample enqueued is what
\* is queued afterwards plus the sample reported as dropped plus the batch
\* the store accepted; the fine tier gains exactly one row for each sample
\* of an accepted batch and none when the flush failed.
C32_NoDuplicationNoLoss ==
    [][LET enqueued == IF last'.op = "enqueue"
                       THEN <<arrivals'[Len(arrivals')]>> ELSE <<>>
           evicted == IF last'.op = "enqueue" /\ Len(evictLog') > Len(evictLog)
                      THEN <<evictLog'[Len(evictLog')]>> ELSE <<>>
           persisted == IF last'.op \in {"flush", "stop"} /\ ~last'.threw
                        THEN last'.batch ELSE <<>>
       IN  /\ SeqToBag(queue) (+) SeqToBag(enqueued)
                 = SeqToBag(queue') (+) SeqToBag(evicted) (+) SeqToBag(persisted)
           /\ \A ts \in WriterTimes :
                 CountRows(raw', "localhost", ts)
                   = CountRows(raw, "localhost", ts) + CountSamples(persisted, "localhost", ts)
           /\ BagCardinality(raw') = BagCardinality(raw) + Len(persisted)]_vars

\* C32 witness: after an earlier flush was persisted, the flush of a full
\* queue failed and will be retried.
C32_Witness ==
    /\ last.op = "flush"
    /\ last.threw
    /\ BagCardinality(raw) > 0
    /\ Len(queue) = maxQueueSize

NextWriter == WriterEnqueue \/ WriterFlush \/ Start \/ WriterStop

SpecWriter == Init /\ [][NextWriter]_vars

----------------------------------------------------------------------------
(* The push agent: agent.js.  A sample is named by its place in the order   *)
(* of collection.  submitMetrics runs up to its request in one step (the    *)
(* guard, isSubmitting = true, the splice, the system info) and settles in  *)
(* another, so that samples are collected, timers fire and signals arrive   *)
(* while a batch is in flight.  A call in flight is [batch, system_info:    *)
(* whether the request carries the system info, exits: whether a signal     *)
(* handler awaits it to end the process].                                   *)

\* The samples of the calls in flight, in the order of the calls
RECURSIVE InFlight(_)
InFlight(calls) ==
    IF calls = <<>> THEN <<>> ELSE Head(calls).batch \o InFlight(Tail(calls))

Range(q) == {q[i] : i \in 1..Len(q)}

\* submitMetrics() that does not look at isSubmitting
SubmitMetricsStartsUnguarded(buf, info, exits) ==
    IF Len(buf) = 0
    THEN /\ metricsBuffer' = buf
         /\ UNCHANGED <<isSubmitting, batchInFlight, systemInfoSent, submitted>>
    ELSE LET k == IF Len(buf) < BATCH_SIZE THEN Len(buf) ELSE BATCH_SIZE
             carries == ~systemInfoSent /\ info
         IN  /\ isSubmitting' = TRUE
             /\ batchInFlight' = Append(batchInFlight,
                                        [batch |-> SubSeq(buf, 1, k), system_info |-> carries,
                                         exits |-> exits])
             /\ metricsBuffer' = SubSeq(buf, k + 1, Len(buf))
             /\ systemInfoSent' = (systemInfoSent \/ carries)
             /\ submitted' = submitted \cup Range(SubSeq(buf, 1, k))

\* submitMetrics() up to its request, on the buffer buf: nothing when a
\* submission is in flight or the buffer is empty; else the first BATCH_SIZE
\* samples are spliced off and, while systemInfoSent is false, the system
\* info is collected (info: collectSystemInfo returned it, not null) and
\* systemInfoSent is set as soon as there is one to send.
SubmitMetricsStarts(buf, info, exits) ==
    IF isSubmitting \/ Len(buf) = 0
    THEN /\ metricsBuffer' = buf
         /\ UNCHANGED <<isSubmitting, batchInFlight, systemInfoSent, submitted>>
    ELSE LET k == IF Len(buf) < BATCH_SIZE THEN Len(buf) ELSE BATCH_SIZE
             carries == ~systemInfoSent /\ info
         IN  /\ isSubmitting' = TRUE
             /\ batchInFlight' = Append(batchInFlight,
                                        [batch |-> SubSeq(buf, 1, k), system_info |-> carries,
                                         exits |-> exits])
             /\ metricsBuffer' = SubSeq(buf, k + 1, Len(buf))
             /\ systemInfoSent' = (systemInfoSent \/ carries)
             /\ submitted' = submitted \cup Range(SubSeq(buf, 1, k))

serverVars == <<machines, raw, posted, hourly, daily, now, db_metadata, writerVars, startVars,
                liveVars>>

\* collect(): a sample, unless collectMetrics failed, is pushed, and a full
\* buffer is submitted.
Collect ==
    /\ agentProc.state # "exited"
    /\ collected < MaxCollected
    /\ \E metrics \in {Null, Some(collected + 1)}, info \in BOOLEAN :
          IF metrics = Null
          THEN /\ last' = [NoLast EXCEPT !.op = "collect", !.ret = "null"]
               /\ UNCHANGED agentVars
          ELSE LET buf == Append(metricsBuffer, metrics[1])
               IN  /\ collected' = collected + 1
                   /\ IF Len(buf) >= BATCH_SIZE
                      THEN SubmitMetricsStarts(buf, info, FALSE)
                      ELSE /\ metricsBuffer' = buf
                           /\ UNCHANGED <<isSubmitting, batchInFlight, systemInfoSent,
                                          submitted>>
                   /\ last' = [NoLast EXCEPT !.op = "collect", !.n = metrics[1]]
                   /\ UNCHANGED <<delivered, serverHasInfo, agentProc>>
    /\ UNCHANGED serverVars

\* setInterval(submitMetrics, 30000) fires
SubmitTimer ==
    /\ agentProc.state # "exited"
    /\ \E info \in BOOLEAN : SubmitMetricsStarts(metricsBuffer, info, FALSE)
    /\ last' = [NoLast EXCEPT !.op = "submitMetrics"]
    /\ UNCHANGED <<collected, delivered, serverHasInfo, agentProc>>
    /\ UNCHANGED serverVars

\* SIGTERM or SIGINT: await submitMetrics(); process.exit(0).  A call that
\* returns at its guard lets the handler exit at once.
Signal ==
    /\ agentProc.state # "exited"
    /\ LET atSignal == IF agentProc.state = "running" THEN metricsBuffer
                       ELSE agentProc.atSignal
       IN  IF isSubmitting \/ Len(metricsBuffer) = 0
           THEN /\ agentProc' = [state |-> "exited", atSignal |-> atSignal]
                /\ UNCHANGED <<metricsBuffer, isSubmitting, batchInFlight, systemInfoSent,
                               submitted>>
           ELSE /\ agentProc' = [state |-> "exiting", atSignal |-> atSignal]
                /\ \E info \in BOOLEAN : SubmitMetricsStarts(metricsBuffer, info, TRUE)
    /\ last' = [NoLast EXCEPT !.op = "signal"]
    /\ UNCHANGED <<collected, delivered, serverHasInfo>>
    /\ UNCHANGED serverVars

\* The i-th element of a sequence removed
Without(q, i) == SubSeq(q, 1, i - 1) \o SubSeq(q, i + 1, Len(q))

\* The rest of submitMetrics for the i-th call in flight: the response is OK
\* ("ok"), the response is not OK ("notOk": the batch is unshifted), or
\* fetch throws ("threw": the catch block logs the error).  finally clears
\* isSubmitting; a signal handler that awaited the call ends the process.
SubmitSettles(i, outcome) ==
    LET call == batchInFlight[i]
    IN  /\ metricsBuffer' = IF outcome = "notOk" THEN call.batch \o metricsBuffer
                            ELSE metricsBuffer
        /\ delivered' = IF outcome = "ok" THEN delivered \o call.batch ELSE delivered
        /\ serverHasInfo' = (serverHasInfo \/ (outcome = "ok" /\ call.system_info))
        /\ isSubmitting' = FALSE
        /\ batchInFlight' = Without(batchInFlight, i)
        /\ agentProc' = IF call.exits THEN [agentProc EXCEPT !.state = "exited"]
                        ELSE agentProc
        /\ last' = [NoLast EXCEPT !.op = "submitSettled", !.ret = outcome,
                                   !.batch = call.batch]
        /\ UNCHANGED <<collected, systemInfoSent, submitted>>

Outcomes == {"ok", "notOk", "threw"}

SubmitSettled ==
    /\ agentProc.state # "exited"
    /\ \E i \in 1..Len(batchInFlight), outcome \in Outcomes : SubmitSettles(i, outcome)
    /\ UNCHANGED serverVars

\* The samples 1 .. n in order
Counting(n) == [i \in 1..n |-> i]

\* C29, retry of failed deliveries: when a submission fails, by a response
\* that is not OK or by an error of the network, its batch is back at the
\* front of the buffer, in order, before what the buffer held; and no sample
\* is dropped: the delivered samples, then the batch in flight, then the
\* buffer are the collected samples in their order.
C29_FailedBatchRequeued ==
    [][ /\ (last'.op = "submitSettled" /\ last'.ret # "ok")
            => metricsBuffer' = last'.batch \o metricsBuffer
        /\ delivered' \o InFlight(batchInFlight') \o metricsBuffer'
              = Counting(collected') ]_vars

\* C36, single-flight submission: at most one submitMetrics call is in
\* flight, isSubmitting is true exactly while one is (so it is false again
\* when the call has finished, however it ended), and no sample is at once
\* in two batches in flight or in a batch in flight and in the buffer.
C36_SingleFlight ==
    /\ Len(batchInFlight) <= 1
    /\ isSubmitting <=> Len(batchInFlight) = 1
    /\ LET held == InFlight(batchInFlight) \o metricsBuffer
       IN  Cardinality(Range(held)) = Len(held)

\* C36 witness: while the batch of samples 1 and 2 is in flight, the fourth
\* collect filled the buffer again and its submitMetrics call returned at
\* the guard.
C36_Witness ==
    /\ last.op = "collect"
    /\ isSubmitting
    /\ Len(batchInFlight) = 1
    /\ batchInFlight[1].batch = <<1, 2>>
    /\ metricsBuffer = <<3, 4>>

\* C37, delivery of the system info: once the agent has had a system info
\* to send and a submission has succeeded, the server holds the system
\* info, unless the request that carries it is still in flight.
C37_MetadataDelivered ==
    (systemInfoSent /\ delivered # <<>>)
    => \/ serverHasInfo
       \/ \E i \in 1..Len(batchInFlight) : batchInFlight[i].system_info

\* C38, flush at shutdown: when the agent has exited after a signal, every
\* sample that was in its buffer when the signal arrived has been put into
\* a request.
C38_ShutdownFlush ==
    agentProc.state = "exited" => Range(agentProc.atSignal) \subseteq submitted

NextAgent == Collect \/ SubmitTimer \/ SubmitSettled \/ Signal

SpecAgent == Init /\ [][NextAgent]_vars

----------------------------------------------------------------------------
(* Restart of the server: the process ends and a new one opens the same     *)
(* database file, which applies every migration again                       *)

\* The server process ends; what it held in memory is gone, the file stays.
Exit ==
    /\ dbInstance
    /\ dbInstance' = FALSE
    /\ queue' = <<>>
    /\ isRunning' = FALSE
    /\ intervalId' = Null
    /\ arrivals' = <<>>
    /\ evictLog' = <<>>
    /\ conns' = <<>>
    /\ jobs' = {}
    /\ closing' = 0
    /\ last' = [NoLast EXCEPT !.op = "exit"]
    /\ UNCHANGED <<machines, raw, posted, hourly, daily, now, db_metadata, schema, agentVars>>

\* getDatabase() in a new process: the constructor opens the file and runs
\* the migrations; an error of a migration leaves the constructor, and the
\* process, without a database.
StartUp ==
    /\ ~dbInstance
    /\ LET r == RunMigrations([schema |-> schema, machines |-> machines,
                               db_metadata |-> db_metadata], 1, now)
       IN  /\ schema' = r.st.schema
           /\ machines' = r.st.machines
           /\ db_metadata' = r.st.db_metadata
           /\ dbInstance' = ~r.threw
           /\ last' = [NoLast EXCEPT !.op = "getDatabase", !.threw = r.threw]
    /\ UNCHANGED <<raw, posted, hourly, daily, now, writerVars, agentVars, liveVars>>

MigratePost ==
    /\ dbInstance
    /\ PostMetricsStep(Bodies, {Some(<<Sample1800>>)}, FALSE)

MigrateTick == Tick(EarlyTimes)

\* C30, migrations are safe to re-apply: starting the store on a database
\* that has every migration applied succeeds and leaves schema and data as
\* they were.
C30_MigrationsReapply ==
    [][last'.op = "getDatabase"
          => /\ ~last'.threw
             /\ dbInstance'
             /\ schema' = schema
             /\ <<machines, raw, hourly, daily, db_metadata>>'
                   = <<machines, raw, hourly, daily, db_metadata>>]_vars

NextMigrate == MigratePost \/ MigrateTick \/ Exit \/ StartUp

SpecMigrate == Init /\ [][NextMigrate]_vars

----------------------------------------------------------------------------
(* The live channel of index.js: a connection has a send timer (interval,   *)
(* 2 s) and a ping timer (pingInterval, 10 s).  A connection is [socket,    *)
(* alive, interval, pingInterval: whether the timer is armed, pinged: a     *)
(* ping was sent and no pong came since, sent: the send timer fired in the  *)
(* current 2-second period].  The clock moves in periods of 2 s, in each of *)
(* which every armed send timer fires once; the ping timer fires at any     *)
(* time.  ws.ping() and ws.terminate() on a closed socket do nothing.       *)

MaxConns == 1     \* live connections accepted in a behaviour
MaxPeriods == 2   \* 2-second periods of a behaviour
MaxSignals == 2   \* SIGTERM/SIGINT delivered to the server in a behaviour

\* The sample sendMetrics enqueues: || 0 on cpu load, memory and network
LocalSample(t) ==
    [Sample(Some(t), Some(10), Some(50), Null, Some(0)) EXCEPT !.machine_id = Some("localhost")]

\* sendMetrics(): collectMetrics, ws.send, metricsWriter.enqueue; an error
\* (ok = FALSE) is caught and logged, nothing is enqueued.
SendMetrics(ok) ==
    IF ok
    THEN LET e == Enqueue(Writer, LocalSample(now))
         IN  /\ queue' = e.queue
             /\ arrivals' = Append(arrivals, LocalSample(now))
             /\ evictLog' = IF e.dropped = Null THEN evictLog
                            ELSE Append(evictLog, Val(e.dropped))
    ELSE UNCHANGED <<queue, arrivals, evictLog>>

liveRest == <<machines, raw, posted, hourly, daily, db_metadata, isRunning, intervalId,
              startVars, agentVars, jobs, closing>>

\* wss.on('connection'): both timers are armed and sendMetrics is called.
Connection ==
    /\ dbInstance
    /\ Len(conns) < MaxConns
    /\ conns' = Append(conns, [socket |-> "open", alive |-> TRUE, interval |-> TRUE,
                               pingInterval |-> TRUE, pinged |-> FALSE, sent |-> TRUE])
    /\ \E ok \in BOOLEAN :
          /\ SendMetrics(ok)
          /\ last' = [NoLast EXCEPT !.op = "connection", !.n = Len(conns) + 1,
                                    !.count = IF ok THEN 1 ELSE 0]
    /\ UNCHANGED <<now, liveRest>>

\* The send timer of connection c fires: sendMetrics()
SendTick(c) ==
    /\ dbInstance
    /\ conns[c].interval
    /\ ~conns[c].sent
    /\ conns' = [conns EXCEPT ![c].sent = TRUE]
    /\ \E ok \in BOOLEAN :
          /\ SendMetrics(ok)
          /\ last' = [NoLast EXCEPT !.op = "sendMetrics", !.n = c,
                                    !.count = IF ok THEN 1 ELSE 0]
    /\ UNCHANGED <<now, liveRest>>

\* The ping timer that terminates the socket but leaves the timers armed
PingTickKeepsTimers(c) ==
    /\ dbInstance
    /\ conns[c].pingInterval
    /\ IF ~conns[c].alive
       THEN /\ conns' = [conns EXCEPT ![c].socket = "closed"]
            /\ last' = [NoLast EXCEPT !.op = "ping", !.n = c, !.ret = "terminate"]
       ELSE /\ conns' = [conns EXCEPT ![c].alive = FALSE, ![c].pinged = TRUE]
            /\ last' = [NoLast EXCEPT !.op = "ping", !.n = c]
    /\ UNCHANGED <<queue, arrivals, evictLog, now, liveRest>>

\* The ping timer of connection c fires: a connection that is not alive is
\* terminated and both its timers are cleared; else alive = false, ws.ping()
PingTick(c) ==
    /\ dbInstance
    /\ conns[c].pingInterval
    /\ IF ~conns[c].alive
       THEN /\ conns' = [conns EXCEPT ![c].socket = "closed", ![c].pingInterval = FALSE,
                                      ![c].interval = FALSE]
            /\ last' = [NoLast EXCEPT !.op = "ping", !.n = c, !.ret = "terminate"]
       ELSE /\ conns' = [conns EXCEPT ![c].alive = FALSE, ![c].pinged = TRUE]
            /\ last' = [NoLast EXCEPT !.op = "ping", !.n = c]
    /\ UNCHANGED <<queue, arrivals, evictLog, now, liveRest>>

\* ws.on('pong'): the client answers a ping
Pong(c) ==
    /\ dbInstance
    /\ conns[c].socket = "open"
    /\ conns[c].pinged
    /\ conns' = [conns EXCEPT ![c].alive = TRUE, ![c].pinged = FALSE]
    /\ last' = [NoLast EXCEPT !.op = "pong", !.n = c]
    /\ UNCHANGED <<queue, arrivals, evictLog, now, liveRest>>

\* ws.on('close'): the client closed the socket
Close(c) ==
    /\ dbInstance
    /\ conns[c].socket = "open"
    /\ conns' = [conns EXCEPT ![c].socket = "closed", ![c].interval = FALSE]
    /\ last' = [NoLast EXCEPT !.op = "close", !.n = c]
    /\ UNCHANGED <<queue, arrivals, evictLog, now, liveRest>>

\* ws.on('error'): the socket failed
Error(c) ==
    /\ dbInstance
    /\ conns[c].socket = "open"
    /\ conns' = [conns EXCEPT ![c].socket = "closed", ![c].interval = FALSE]
    /\ last' = [NoLast EXCEPT !.op = "error", !.n = c]
    /\ UNCHANGED <<queue, arrivals, evictLog, now, liveRest>>

\* Two seconds pass: every armed send timer has fired and is due again.
Period ==
    /\ dbInstance
    /\ now < T0 + 2 * MaxPeriods
    /\ \A c \in 1..Len(conns) : conns[c].interval => conns[c].sent
    /\ now' = now + 2
    /\ conns' = [c \in 1..Len(conns) |-> [conns[c] EXCEPT !.sent = FALSE]]
    /\ last' = [NoLast EXCEPT !.op = "tick"]
    /\ UNCHANGED <<queue, arrivals, evictLog, liveRest>>

LiveSend == \E c \in 1..Len(conns) : SendTick(c)

LivePing == \E c \in 1..Len(conns) : PingTick(c)

LivePong == \E c \in 1..Len(conns) : Pong(c)

LiveClose == \E c \in 1..Len(conns) : Close(c)

LiveError == \E c \in 1..Len(conns) : Error(c)

\* Samples of the local machine stamped t that are queued or stored
LocalCount(t) == CountRows(raw, "localhost", t) + CountSamples(queue, "localhost", t)

\* C35, one sample per sampling tick: at the end of each 2-second period
\* exactly one sample of the local machine stamped in that period has been
\* enqueued, whatever the number of open live connections.
C35_OneSamplePerTick == [][now' # now => LocalCount(now) = 1]_vars

\* Both timers of connection c are cleared
Cleared(c) == ~conns[c].interval /\ ~conns[c].pingInterval

\* C34, timer hygiene of the live channel: once the socket of a connection
\* is closed (by the client, by an error or by the heartbeat) both its
\* timers are eventually cleared; a ping tick that finds the last ping
\* unanswered clears both at once; a cleared timer stays cleared and does
\* not fire again; and the heartbeat terminates a connection only when its
\* last ping is unanswered.
C34_TimersCleared ==
    /\ \A c \in 1..MaxConns :
          [](c <= Len(conns) /\ conns[c].socket = "closed"
                => <>(c <= Len(conns) /\ Cleared(c)))
    /\ [][\A c \in 1..Len(conns) :
             /\ ~conns[c].interval
                  => ~conns'[c].interval /\ ~(last'.op = "sendMetrics" /\ last'.n = c)
             /\ ~conns[c].pingInterval
                  => ~conns'[c].pingInterval /\ ~(last'.op = "ping" /\ last'.n = c)]_vars
    /\ [][last'.op = "ping"
             => /\ conns[last'.n].pinged
                     => ~conns'[last'.n].interval /\ ~conns'[last'.n].pingInterval
                /\ last'.ret = "terminate" => conns[last'.n].pinged]_vars

\* C34 witness: after the first period a ping tick found the last ping of a
\* connection unanswered, terminated it and cleared both timers.
C34_Witness ==
    /\ last.op = "ping"
    /\ last.ret = "terminate"
    /\ conns[last.n].socket = "closed"
    /\ Cleared(last.n)
    /\ now > T0

NextLive == Connection \/ LiveSend \/ LivePing \/ LivePong \/ LiveClose \/ LiveError \/ Period

SpecLive == Init /\ [][NextLive]_vars

\* setInterval keeps firing the ping timer of a connection while it is armed.
SpecLiveFair ==
    /\ SpecLive
    /\ \A c \in 1..MaxConns : WF_vars(c <= Len(conns) /\ PingTick(c))

----------------------------------------------------------------------------
(* Shutdown of the server: gracefulShutdown of index.js, with the writer    *)
(* and the aggregator it stops.  jobs holds the names of the scheduled jobs *)
(* of the aggregator and "catchUp" while the timeout of start() is pending. *)

CronJobs == {"hourly", "daily", "cleanup"}

\* aggregator.start(), called once when the server starts
AggregatorStart ==
    /\ dbInstance
    /\ closing = 0
    /\ jobs = {}
    /\ jobs' = CronJobs \cup {"catchUp"}
    /\ last' = [NoLast EXCEPT !.op = "aggregatorStart"]
    /\ UNCHANGED <<machines, raw, posted, hourly, daily, now, db_metadata, writerVars,
                   startVars, agentVars, conns, closing>>

\* metricsWriter.start(), called once when the server starts
WriterStart ==
    /\ dbInstance
    /\ closing = 0
    /\ Start

\* The timeout of aggregator.start() fires: runHourlyAggregation()
CatchUp ==
    /\ dbInstance
    /\ "catchUp" \in jobs
    /\ jobs' = jobs \ {"catchUp"}
    /\ \E order \in GetMachinesOrders(machines) :
          LET currentHour == (now \div HOUR) * HOUR
              r == HourlyLoop(hourly, order, 1, 0, currentHour - HOUR)
          IN  /\ hourly' = r.table
              /\ last' = [NoLast EXCEPT !.op = "hourlyJob", !.bucket = currentHour - HOUR,
                                        !.threw = r.threw]
    /\ UNCHANGED <<machines, raw, posted, daily, now, db_metadata, writerVars, startVars,
                   agentVars, conns, closing>>

\* The hourly job of the aggregator fires
ShutdownHourlyJob ==
    /\ dbInstance
    /\ "hourly" \in jobs
    /\ \E order \in GetMachinesOrders(machines) : RunHourlyAggregation(order, 0)

ShutdownSample == LocalSample(T0 + 1800)

\* The sampling path enqueues a sample
ShutdownEnqueue ==
    /\ dbInstance
    /\ Len(queue) < maxQueueSize
    /\ BagCardinality(raw) + Len(queue) < MaxRaw
    /\ EnqueueCall(ShutdownSample)

\* The flush timer of the writer fires
ShutdownFlush ==
    /\ dbInstance
    /\ \E failAt \in 0..Len(queue) : TimerFlush(failAt)

\* gracefulShutdown that closes the database without stopping the writer
GracefulShutdownNoStop(failAt) ==
    /\ dbInstance
    /\ closing < MaxSignals
    /\ last' = [NoLast EXCEPT !.op = "gracefulShutdown"]
    /\ jobs' = jobs \ CronJobs
    /\ closing' = closing + 1
    /\ UNCHANGED <<machines, raw, posted, hourly, daily, now, db_metadata, writerVars,
                   startVars, agentVars, conns>>

\* gracefulShutdown(): server.close, metricsWriter.stop(), aggregator.stop()
\* and a timeout of one second for db.close() and process.exit(0).
GracefulShutdown(failAt) ==
    /\ dbInstance
    /\ closing < MaxSignals
    /\ StopEffect(failAt, "gracefulShutdown")
    /\ jobs' = jobs \ CronJobs
    /\ closing' = closing + 1
    /\ UNCHANGED <<hourly, daily, now, db_metadata, startVars, agentVars, conns>>

Sigterm == \E failAt \in 0..Len(queue) : GracefulShutdown(failAt)

\* The timeout of gracefulShutdown fires: db.close(); process.exit(0)
ShutdownTimeout ==
    /\ closing > 0
    /\ Exit

\* C33, order of the graceful shutdown: the shutdown cancels the writer's
\* timer and, while the database is still open, flushes the queue, so that
\* when the store accepts the batch every sample enqueued before is stored;
\* the database is closed only after a shutdown, with the writer's timer
\* and the scheduled jobs cancelled; and once it is closed nothing writes
\* to it.
C33_ShutdownOrder ==
    [][/\ last'.op = "gracefulShutdown"
            => /\ intervalId' = Null
               /\ dbInstance'
               /\ ~last'.threw
                    => /\ queue' = <<>>
                       /\ BagCardinality(raw') = BagCardinality(raw) + Len(queue)
                       /\ CountRows(raw', "localhost", T0 + 1800)
                             = CountRows(raw, "localhost", T0 + 1800)
                                 + CountSamples(queue, "localhost", T0 + 1800)
       /\ (dbInstance /\ ~dbInstance')
            => closing > 0 /\ intervalId = Null /\ jobs \cap CronJobs = {}
       /\ ~dbInstance => UNCHANGED <<machines, raw, hourly, daily, db_metadata>>]_vars

\* C33 witness: with the timer armed and the jobs scheduled, the shutdown
\* flushed a queue of two samples into the store; the database is open.
C33_Witness ==
    /\ last.op = "gracefulShutdown"
    /\ ~last.threw
    /\ Len(last.batch) = 2
    /\ BagCardinality(raw) = 2
    /\ closing = 1
    /\ dbInstance
    /\ "catchUp" \in jobs

NextShutdown ==
    \/ WriterStart \/ AggregatorStart \/ CatchUp \/ ShutdownHourlyJob \/ ShutdownEnqueue
    \/ ShutdownFlush \/ Sigterm \/ ShutdownTimeout

SpecShutdown == Init /\ [][NextShutdown]_vars

====
